---- MODULE Spec2Model ----
(***************************************************************************)
(* Chunking, embedding and retrieval pipeline of the RAG assistant.        *)
(*                                                                         *)
(* Texts are sequences of characters.  Python offsets are 0-based and are  *)
(* kept 0-based here: text[s:e] is Slice(text, s, e).                      *)
(***************************************************************************)
EXTENDS Integers, Sequences, FiniteSets, TLC

VARIABLES
    \* BasicChunkingStrategy._split_text_with_overlap, one loop iteration per step
    text, max_chunk_size, overlap_size, start, chunks, slices, iterations, pc,
    \* ChunkParser.chunk_document over a parsed document
    document, strategy, section_index, doc_chunks, result, pc_c, smart_failed_at,
    llm_calls, summary_log,
    \* DocumentIndexer._generate_embeddings_batch
    in_chunks, batch_size, provider_outcome, batch_i, task, batch_results, embedding,
    chunks_with_embeddings, successful_embeddings, pc_e,
    \* QueryProcessor.process_query: search_documents, generate_response,
    \* _calculate_confidence
    store, limit, min_similarity, raw_results, search_results, pc_q,
    query_outcome, store_calls, completion_outcome, completion_calls, answer,
    confidence, error,
    \* SmartChunkingStrategy._find_semantic_breaks called on a text
    break_text, break_response, semantic_breaks, pc_b,
    \* DocumentIndexer.index_document
    chunk_parser, use_smart_chunking, collection, index_calls, pc_i, final_stats, index_error,
    collection_before, embedded_chunks,
    \* repeated calls of _split_text_with_overlap on one strategy object
    split_calls, split_returns,
    \* DocumentSection.get_full_text called on a section tree
    doc_section, full_text, pc_t,
    \* ChunkParser.get_chunk_statistics called on the chunks returned
    statistics, pc_s,
    \* GoogleDocsParser._parse_content_into_sections, one content item per step
    parsed_sections, section_stack, current_section, parsed_items, pc_p

splitVars == <<text, max_chunk_size, overlap_size, start, chunks, slices, iterations, pc>>

\* max_chunk_size and overlap_size are the configuration both components share
splitLocals == <<text, start, chunks, slices, iterations, pc>>

chunkVars == <<document, strategy, section_index, doc_chunks, result, pc_c, smart_failed_at,
               llm_calls, summary_log>>

embedVars == <<in_chunks, batch_size, provider_outcome, batch_i, task, batch_results, embedding,
               chunks_with_embeddings, successful_embeddings, pc_e>>

searchVars == <<store, limit, min_similarity, raw_results, search_results, pc_q,
                query_outcome, store_calls, completion_outcome, completion_calls, answer,
                confidence, error>>

breakVars == <<break_text, break_response, semantic_breaks, pc_b>>

indexVars == <<chunk_parser, use_smart_chunking, collection, index_calls, pc_i, final_stats,
               index_error, collection_before, embedded_chunks>>

repeatVars == <<split_calls, split_returns>>

textVars == <<doc_section, full_text, pc_t>>

statsVars == <<statistics, pc_s>>

parseVars == <<parsed_sections, section_stack, current_section, parsed_items, pc_p>>

vars == <<splitVars, chunkVars, embedVars, searchVars, breakVars, indexVars, repeatVars,
          textVars, statsVars, parseVars>>

\* what the actions of each component leave alone
outsideSplit == <<chunkVars, embedVars, searchVars, breakVars, indexVars,
                  repeatVars, textVars, statsVars, parseVars>>

outsideChunk == <<splitLocals, embedVars, searchVars, breakVars, indexVars, repeatVars, textVars, statsVars,
                  parseVars>>

outsideEmbed == <<splitVars, chunkVars, searchVars, breakVars, indexVars, repeatVars, textVars, statsVars,
                  parseVars>>

outsideSearch == <<splitVars, chunkVars, embedVars, breakVars, indexVars, repeatVars, textVars, statsVars,
                   parseVars>>

outsideBreak == <<splitVars, chunkVars, embedVars, searchVars, indexVars, repeatVars, textVars, statsVars,
                  parseVars>>

outsideRepeat == <<chunkVars, embedVars, searchVars, breakVars, indexVars, textVars, statsVars,
                  parseVars>>

outsideText == <<splitVars, chunkVars, embedVars, searchVars, breakVars, indexVars, repeatVars,
                statsVars, parseVars>>

outsideStats == <<splitVars, chunkVars, embedVars, searchVars, breakVars, indexVars, repeatVars,
                 textVars, parseVars>>

outsideParse == <<splitVars, chunkVars, embedVars, searchVars, breakVars, indexVars, repeatVars,
                 textVars, statsVars>>

outsideIndex == <<splitLocals, embedVars, searchVars, breakVars, repeatVars, textVars, statsVars,
                  parseVars>>

----------------------------------------------------------------------------
(* Bounds *)

MaxLen == 12
MaxSpaces == 1
MaxChunkSize == 11
MaxOverlap == 2
MaxSecLen == 3
MaxSecChunkSize == 2
MaxBreaks == 1
MaxLongSecLen == 8
MaxLongChunkSize == 7
MaxBreakTextLen == 5
MaxBreakSpaces == 4
MaxIndexCalls == 2
MaxIndexSections == 1
MaxEmbedChunks == 3
MaxBatchSize == 3
MaxStored == 3
MaxLimit == 2
MaxDistanceSteps == 6
MaxMinSimSteps == 4
MaxScenarioSpaces == 2
MaxSectionNodes == 3
MaxSplitCalls == 2
MaxWalkBreaks == 2
MaxSummarySections == 2
MaxItems == 3

\* numbers of top-level sections of the documents explored
SectionCounts == {0, 1, 2}

\* overlap sizes of the document chunker's configurations
SecOverlaps == {0, 1}

----------------------------------------------------------------------------
(* Characters and Python string primitives *)

Whitespace == {" ", "\n"}

Chars == {"a"} \cup Whitespace

IsSpace(c) == c \in Whitespace

Min2(a, b) == IF a <= b THEN a ELSE b

Max2(a, b) == IF a >= b THEN a ELSE b

SetMax(S) == CHOOSE m \in S : \A x \in S : x <= m

SetMin(S) == CHOOSE m \in S : \A x \in S : m <= x

RECURSIVE Ascending(_)
\* the set S of positions as an ascending sequence
Ascending(S) == IF S = {} THEN <<>> ELSE <<SetMin(S)>> \o Ascending(S \ {SetMin(S)})

\* text[s:e] for 0 <= s, with e clamped to len(text)
Slice(t, s, e) == SubSeq(t, s + 1, Min2(e, Len(t)))

\* text[i], 0-based
CharAt(t, i) == t[i + 1]

\* str.strip(): drop leading and trailing whitespace
Strip(s) ==
    LET ns == {i \in 1..Len(s) : ~IsSpace(s[i])}
    IN  IF ns = {} THEN <<>> ELSE SubSeq(s, SetMin(ns), SetMax(ns))

\* str.rfind(ch, s, e): highest index in [s, e) holding ch, or -1
RFind(t, ch, s, e) ==
    LET hits == {i \in s..(Min2(e, Len(t)) - 1) : CharAt(t, i) = ch}
    IN  IF hits = {} THEN -1 ELSE SetMax(hits)

\* all texts of length n with at most k whitespace characters
TextsOfLen(n, k) ==
    UNION {{[i \in 1..n |-> IF i \in S THEN f[i] ELSE "a"] : f \in [S -> Whitespace]} :
           S \in {T \in SUBSET (1..n) : Cardinality(T) <= k}}

Texts(maxlen, k) == UNION {TextsOfLen(n, k) : n \in 0..maxlen}

----------------------------------------------------------------------------
(* BasicChunkingStrategy._split_text_with_overlap *)

\* the window end one character too far
CutEnd_Inclusive(t, s, M) == Min2(s + M + 1, Len(t))

\* lines 118-125: the window end, moved back to the last space when that
\* space lies after start + 0.8 * max_chunk_size
CutEnd(t, s, M) ==
    LET end == Min2(s + M, Len(t))
    IN  IF end < Len(t)
        THEN LET last_space == RFind(t, " ", s, end)
             IN  IF 10 * last_space > 10 * s + 8 * M THEN last_space ELSE end
        ELSE end

\* line 132 with the overlap dropped from the maximum
NextStart_NoMax(s, end, M, O) == s + M - O

\* line 132: start = max(start + max_chunk_size - overlap_size, end)
NextStart(s, end, M, O) == Max2(s + M - O, end)

RECURSIVE SplitFrom(_, _, _, _)
\* the while loop of lines 117-132, from cursor s to the end of the text
SplitFrom(t, s, M, O) ==
    IF s < Len(t)
    THEN LET end == CutEnd(t, s, M)
             chunk_text == Strip(Slice(t, s, end))
         IN  (IF chunk_text # <<>> THEN <<chunk_text>> ELSE <<>>)
             \o SplitFrom(t, NextStart(s, end, M, O), M, O)
    ELSE <<>>

\* the list of pieces the whole call returns
_split_text_with_overlap(t, M, O) == SplitFrom(t, 0, M, O)

\* the document chunker is not running
ChunkIdle ==
    /\ document = <<>>
    /\ strategy = "basic"
    /\ section_index = 0
    /\ doc_chunks = <<>>
    /\ result = <<>>
    /\ pc_c = "idle"
    /\ smart_failed_at = -1
    /\ llm_calls = 0
    /\ summary_log = <<>>

\* the embedding batcher is not running
EmbedIdle ==
    /\ in_chunks = <<>>
    /\ batch_size = 10
    /\ provider_outcome = <<>>
    /\ batch_i = 0
    /\ task = <<>>
    /\ batch_results = <<>>
    /\ embedding = <<>>
    /\ chunks_with_embeddings = <<>>
    /\ successful_embeddings = 0
    /\ pc_e = "idle"

\* no search is running
SearchIdle ==
    /\ store = <<>>
    /\ limit = 5
    /\ min_similarity = 10
    /\ raw_results = <<>>
    /\ search_results = <<>>
    /\ pc_q = "idle"
    /\ query_outcome = "none"
    /\ store_calls = 0
    /\ completion_outcome = "none"
    /\ completion_calls = 0
    /\ answer = "none"
    /\ confidence = 0
    /\ error = "none"

\* _find_semantic_breaks is not running
BreakIdle ==
    /\ break_text = <<>>
    /\ break_response = [kind |-> "none", success |-> FALSE, has_content |-> FALSE,
                         ints |-> <<>>]
    /\ semantic_breaks = <<>>
    /\ pc_b = "idle"

\* DocumentIndexer.chunk_parser is None
NoParser ==
    [exists |-> FALSE, use_smart_chunking |-> FALSE, strategy |-> "None",
     max_chunk_size |-> 0, overlap_size |-> 0]

\* index_document has returned no statistics
NoStats == [indexing_complete |-> FALSE, chunks_created |-> 0, chunks_with_embeddings |-> 0]

\* no indexer is in use
IndexIdle ==
    /\ chunk_parser = NoParser
    /\ use_smart_chunking = TRUE
    /\ collection = <<>>
    /\ index_calls = 0
    /\ pc_i = "unused"
    /\ final_stats = NoStats
    /\ index_error = "none"
    /\ collection_before = <<>>
    /\ embedded_chunks = {}

\* a section without title, elements or subsections
EmptySection == [title |-> <<>>, level |-> 0, elements |-> <<>>, subsections |-> <<>>]

\* the splitter has not been called again
RepeatIdle ==
    /\ split_calls = 0
    /\ split_returns = <<>>

\* get_full_text is not running
TextIdle ==
    /\ doc_section = EmptySection
    /\ full_text = <<>>
    /\ pc_t = "idle"

\* get_chunk_statistics has not been called
StatsIdle ==
    /\ statistics = [total_chunks |-> 0]
    /\ pc_s = "idle"

\* the Google Docs parser is not running
ParseIdle ==
    /\ parsed_sections = <<>>
    /\ section_stack = <<>>
    /\ current_section = 0
    /\ parsed_items = <<>>
    /\ pc_p = "idle"

\* none of the four is in use
RestIdle ==
    /\ RepeatIdle
    /\ TextIdle
    /\ StatsIdle
    /\ ParseIdle

\* the chunker's default configuration (parser.py:18-19)
ConfigIdle ==
    /\ max_chunk_size = 1000
    /\ overlap_size = 100

SplitInit ==
    /\ text \in Texts(MaxLen, MaxSpaces)
    /\ max_chunk_size \in 1..MaxChunkSize
    /\ overlap_size \in 0..MaxOverlap
    /\ start = 0
    /\ chunks = <<>>
    /\ slices = <<>>
    /\ iterations = 0
    /\ pc = "loop"
    /\ ChunkIdle
    /\ EmbedIdle
    /\ SearchIdle
    /\ BreakIdle
    /\ IndexIdle
    /\ RestIdle

\* one iteration of the while loop; slices records the [start, end) range of
\* the original text behind every piece appended to chunks
SplitStep ==
    /\ pc = "loop"
    /\ start < Len(text)
    /\ LET end == CutEnd(text, start, max_chunk_size)
           chunk_text == Strip(Slice(text, start, end))
       IN  /\ chunks' = IF chunk_text # <<>> THEN Append(chunks, chunk_text) ELSE chunks
           /\ slices' = IF chunk_text # <<>> THEN Append(slices, <<start, end>>) ELSE slices
           /\ start' = NextStart(start, end, max_chunk_size, overlap_size)
    /\ iterations' = iterations + 1
    /\ UNCHANGED <<text, max_chunk_size, overlap_size, pc>>
    /\ UNCHANGED outsideSplit

\* the loop condition fails: return chunks
SplitReturn ==
    /\ pc = "loop"
    /\ start >= Len(text)
    /\ pc' = "done"
    /\ UNCHANGED <<text, max_chunk_size, overlap_size, start, chunks, slices, iterations>>
    /\ UNCHANGED outsideSplit

SplitNext == SplitStep \/ SplitReturn

SpecSplit == SplitInit /\ [][SplitNext]_vars

----------------------------------------------------------------------------
(* Claims about the size-based splitter *)

\* C1: when the splitter has returned, every non-whitespace character
\* position of the text lies inside the source range of at least one piece.
C1_NoInformationLoss ==
    pc = "done" =>
        \A p \in 0..(Len(text) - 1) :
            ~IsSpace(CharAt(text, p)) =>
                \E k \in 1..Len(slices) : slices[k][1] <= p /\ p < slices[k][2]

\* C2: with overlap_size > 0, each piece after the first starts at least
\* min(overlap_size, len(previous piece)) characters before the position
\* where the previous piece was cut.
C2_OverlapInvariant ==
    overlap_size > 0 =>
        \A i \in 1..(Len(slices) - 1) :
            slices[i + 1][1] <= slices[i][2] - Min2(overlap_size, Len(chunks[i]))

\* C3: every loop iteration strictly increases the cursor, and the number of
\* iterations never exceeds len(text), whatever the overlap.
C3_ProgressAndTermination ==
    [][iterations' = iterations + 1 =>
          (start' > start /\ iterations' <= Len(text))]_vars

C3_Witness ==
    pc = "done" /\ overlap_size >= max_chunk_size /\ iterations >= 2

----------------------------------------------------------------------------
(* Chunk records and the two chunking strategies *)

\* Chunk with the ChunkMetadata fields the strategies set; a section is
\* represented by the text its get_full_text() returns
Chunk(content, chunk_index, overlap_before, overlap_after) ==
    [content |-> content, summary |-> "None", chunk_index |-> chunk_index,
     total_chunks |-> 0, overlap_before |-> overlap_before,
     overlap_after |-> overlap_after]

\* strategies.py:183, only chunks longer than this are summarized
SummaryMinLen == 200

\* overlap_after set on the last piece as well
_chunk_section_OverlapAfterLast(t, start_chunk_index, M, O) ==
    IF Strip(t) = <<>>
    THEN <<>>
    ELSE IF Len(t) <= M
         THEN <<Chunk(t, start_chunk_index, 0, 0)>>
         ELSE LET chunk_pieces == _split_text_with_overlap(t, M, O)
              IN  [i \in 1..Len(chunk_pieces) |->
                      Chunk(chunk_pieces[i], start_chunk_index + i - 1,
                            IF i > 1 THEN O ELSE 0, O)]

\* BasicChunkingStrategy._chunk_section on a section whose full text is t
_chunk_section(t, start_chunk_index, M, O) ==
    IF Strip(t) = <<>>
    THEN <<>>
    ELSE IF Len(t) <= M
         THEN <<Chunk(t, start_chunk_index, 0, 0)>>
         ELSE LET chunk_pieces == _split_text_with_overlap(t, M, O)
              IN  [i \in 1..Len(chunk_pieces) |->
                      Chunk(chunk_pieces[i], start_chunk_index + i - 1,
                            IF i > 1 THEN O ELSE 0,
                            IF i < Len(chunk_pieces) THEN O ELSE 0)]

RECURSIVE SortInsert(_, _)
\* x inserted into the ascending sequence s
SortInsert(s, x) ==
    IF s = <<>> THEN <<x>>
    ELSE IF x <= Head(s) THEN <<x>> \o s
    ELSE <<Head(s)>> \o SortInsert(Tail(s), x)

RECURSIVE Sorted(_)
\* sorted(list)
Sorted(s) == IF s = <<>> THEN <<>> ELSE SortInsert(Sorted(Tail(s)), Head(s))

\* SmartChunkingStrategy._find_paragraph_breaks: the start of every match of
\* \n\s*\n, i.e. the first newline of each run of whitespace that starts at a
\* newline and holds another one; matches do not overlap
_find_paragraph_breaks(t) ==
    LET IsNl(i) == i \in 0..(Len(t) - 1) /\ CharAt(t, i) = "\n"
        \* i starts a match: a later newline is reached through whitespace only
        Matches(i) == IsNl(i) /\ \E j \in (i + 1)..(Len(t) - 1) :
                          /\ IsNl(j)
                          /\ \A k \in (i + 1)..j : IsSpace(CharAt(t, k))
        \* i lies inside a match that starts earlier
        Covered(i) == \E h \in 0..(i - 1) :
                          /\ IsNl(h)
                          /\ \A k \in h..i : IsSpace(CharAt(t, k))
                          /\ \E j \in i..(Len(t) - 1) :
                                 IsNl(j) /\ \A k \in i..j : IsSpace(CharAt(t, k))
        starts == {i \in 0..(Len(t) - 1) : Matches(i) /\ ~Covered(i)}
        RECURSIVE Asc(_)
        Asc(S) == IF S = {} THEN <<>> ELSE <<SetMin(S)>> \o Asc(S \ {SetMin(S)})
    IN  Asc(starts)

\* the completion service's answer to the break-point prompt: the call
\* raises, or returns success / content; ints are the decimal integers
\* re.findall finds in the content, in order (0 and maxpos = len(text) stand
\* for the positions outside the text)
BreakResponses(maxpos) ==
    {[kind |-> "raise", success |-> FALSE, has_content |-> FALSE, ints |-> <<>>],
     [kind |-> "result", success |-> FALSE, has_content |-> TRUE, ints |-> <<>>],
     [kind |-> "result", success |-> TRUE, has_content |-> FALSE, ints |-> <<>>]}
    \cup {[kind |-> "result", success |-> TRUE, has_content |-> TRUE, ints |-> q] :
             q \in UNION {[1..n -> 0..maxpos] : n \in 0..MaxBreaks}}

\* no completion call is made
NoResponse == [kind |-> "none", success |-> FALSE, has_content |-> FALSE, ints |-> <<>>]

\* _chunk_section_semantically reaches the completion call (line 221)
CallsCompletion(t, M) == Strip(t) # <<>> /\ Len(t) > M

\* SmartChunkingStrategy._find_semantic_breaks
_find_semantic_breaks(t, response) ==
    IF response.kind = "result" /\ response.success /\ response.has_content
    THEN Sorted(SelectSeq(response.ints, LAMBDA pos : 0 < pos /\ pos < Len(t)))
    ELSE _find_paragraph_breaks(t)

RECURSIVE BreakLoop(_, _, _, _, _, _)
\* the for loop and the final chunk of _split_at_break_points
BreakLoop(t, break_points, s, acc, M, O) ==
    IF break_points = <<>>
    THEN IF s < Len(t)
         THEN LET final_chunk == Strip(Slice(t, s, Len(t)))
              IN  IF final_chunk # <<>> THEN Append(acc, final_chunk) ELSE acc
         ELSE acc
    ELSE LET break_point == Head(break_points)
         IN  IF 2 * (break_point - s) > M
             THEN LET chunk == Strip(Slice(t, s, break_point))
                  IN  BreakLoop(t, Tail(break_points), Max2(0, break_point - O),
                                IF chunk # <<>> THEN Append(acc, chunk) ELSE acc, M, O)
             ELSE BreakLoop(t, Tail(break_points), s, acc, M, O)

\* SmartChunkingStrategy._split_at_break_points
_split_at_break_points(t, break_points, M, O) ==
    IF break_points = <<>>
    THEN _split_text_with_overlap(t, M, O)
    ELSE BreakLoop(t, break_points, 0, <<>>, M, O)

\* SmartChunkingStrategy._chunk_section_semantically; response is what the
\* completion service answers if it is asked
_chunk_section_semantically(t, start_chunk_index, response, M, O) ==
    IF Strip(t) = <<>>
    THEN <<>>
    ELSE IF Len(t) <= M
         THEN _chunk_section(t, start_chunk_index, M, O)
         ELSE LET break_points == _find_semantic_breaks(t, response)
                  chunk_texts == _split_at_break_points(t, break_points, M, O)
              IN  [i \in 1..Len(chunk_texts) |->
                      Chunk(Strip(chunk_texts[i]), start_chunk_index + i - 1, 0, 0)]

\* what llm_provider.summarize does: it raises, reports failure, returns
\* success with empty content, or returns a text
SummaryOutcomes == {"raise", "fail", "empty", "text"}

\* a summary is kept although the call did not return one
_generate_summary_Always(outcome) == "summary"

\* SmartChunkingStrategy._generate_summary, lines 315-328: the stripped
\* content on success, None otherwise
_generate_summary(outcome) == IF outcome = "text" THEN "summary" ELSE "None"

\* the values chunk.summary takes
SummaryResults == {_generate_summary(outcome) : outcome \in SummaryOutcomes}

\* SmartChunkingStrategy.use_summaries as ChunkParser constructs the strategy
use_summaries == TRUE

\* the chunks of one section that get a summary request
NeedsSummary(section_chunks) ==
    {i \in 1..Len(section_chunks) :
        use_summaries /\ Len(section_chunks[i].content) > SummaryMinLen}

\* total_chunks stamped on every chunk
StampTotal(cs) == [i \in 1..Len(cs) |-> [cs[i] EXCEPT !.total_chunks = Len(cs)]]

RECURSIVE PostLoop(_, _)
\* the for loop of _post_process_chunks: skip empty chunks, renumber
PostLoop(cs, processed_chunks) ==
    IF cs = <<>>
    THEN processed_chunks
    ELSE IF Strip(Head(cs).content) = <<>>
         THEN PostLoop(Tail(cs), processed_chunks)
         ELSE PostLoop(Tail(cs),
                       Append(processed_chunks,
                              [Head(cs) EXCEPT !.chunk_index = Len(processed_chunks)]))

\* chunk_index numbered from 1 instead of 0
_post_process_chunks_OneBased(cs) ==
    LET kept == SelectSeq(cs, LAMBDA c : Strip(c.content) # <<>>)
    IN  [i \in 1..Len(kept) |-> [kept[i] EXCEPT !.chunk_index = i, !.total_chunks = Len(kept)]]

\* ChunkParser._post_process_chunks
_post_process_chunks(cs) == StampTotal(PostLoop(cs, <<>>))

RECURSIVE BasicSections(_, _, _, _, _)
\* the section loop of BasicChunkingStrategy.chunk_document from section k on
BasicSections(doc, k, acc, M, O) ==
    IF k > Len(doc)
    THEN acc
    ELSE BasicSections(doc, k + 1, acc \o _chunk_section(doc[k], Len(acc), M, O), M, O)

\* BasicChunkingStrategy.chunk_document on a whole document
BasicChunkDocument(doc, M, O) == StampTotal(BasicSections(doc, 1, <<>>, M, O))

\* the size-based chunks are appended to the smart chunks built so far
FallbackStart_KeepPartial(smart_chunks) == smart_chunks

\* strategies.py:197-199 and 40: the except clause hands the whole document to
\* basic_strategy.chunk_document, which starts from its own empty list
FallbackStart(smart_chunks) == <<>>

----------------------------------------------------------------------------
(* ChunkParser.chunk_document, one section per step *)

SplitIdle ==
    /\ text = <<>>
    /\ start = 0
    /\ chunks = <<>>
    /\ slices = <<>>
    /\ iterations = 0
    /\ pc = "idle"

\* full texts of a section: at most one whitespace character each
SectionTexts == Texts(MaxSecLen, 1)

Documents == UNION {[1..n -> SectionTexts] : n \in SectionCounts}

\* one-section documents long enough for a word-boundary cut, which needs a
\* space after start + 0.8 * max_chunk_size and so max_chunk_size >= 6
LongDocuments == {<<t>> : t \in Texts(MaxLongSecLen, 1)}

ChunkInit ==
    /\ \/ /\ document \in Documents
          /\ max_chunk_size \in 1..MaxSecChunkSize
       \/ /\ document \in LongDocuments
          /\ max_chunk_size \in 6..MaxLongChunkSize
    /\ strategy \in {"basic", "smart"}
    /\ overlap_size \in SecOverlaps
    /\ section_index = 0
    /\ doc_chunks = <<>>
    /\ result = <<>>
    /\ pc_c = "chunking"
    /\ smart_failed_at = -1
    /\ llm_calls = 0
    /\ summary_log = <<>>
    /\ SplitIdle
    /\ EmbedIdle
    /\ SearchIdle
    /\ BreakIdle
    /\ IndexIdle
    /\ RestIdle

\* BasicChunkingStrategy.chunk_document, one iteration of the section loop
ChunkSectionBasic ==
    /\ pc_c = "chunking"
    /\ strategy = "basic" \/ smart_failed_at >= 0
    /\ section_index < Len(document)
    /\ LET section_chunks == _chunk_section(document[section_index + 1], Len(doc_chunks),
                                            max_chunk_size, overlap_size)
       IN  doc_chunks' = doc_chunks \o section_chunks
    /\ section_index' = section_index + 1
    /\ UNCHANGED <<document, strategy, result, pc_c, smart_failed_at, llm_calls, summary_log,
                   max_chunk_size, overlap_size>>
    /\ UNCHANGED outsideChunk

\* SmartChunkingStrategy.chunk_document, one iteration of the section loop:
\* the section is chunked, then its long chunks are summarized
ChunkSectionSmart ==
    /\ pc_c = "chunking"
    /\ strategy = "smart"
    /\ smart_failed_at < 0
    /\ section_index < Len(document)
    /\ \E response \in (IF CallsCompletion(document[section_index + 1], max_chunk_size)
                        THEN BreakResponses(Len(document[section_index + 1]))
                        ELSE {NoResponse}) :
         LET section_chunks ==
                 _chunk_section_semantically(document[section_index + 1], Len(doc_chunks),
                                             response, max_chunk_size, overlap_size)
         IN  /\ \E outcomes \in [NeedsSummary(section_chunks) -> SummaryOutcomes] :
                     /\ doc_chunks' = doc_chunks \o
                            [i \in 1..Len(section_chunks) |->
                                IF i \in NeedsSummary(section_chunks)
                                THEN [section_chunks[i] EXCEPT
                                         !.summary = _generate_summary(outcomes[i])]
                                ELSE section_chunks[i]]
                     \* the summarize calls made, in order, with what they did
                     /\ summary_log' = summary_log \o
                            [k \in 1..Cardinality(NeedsSummary(section_chunks)) |->
                                LET i == Ascending(NeedsSummary(section_chunks))[k]
                                IN  [chunk |-> Len(doc_chunks) + i, outcome |-> outcomes[i]]]
             \* calls of llm_provider.generate_response and llm_provider.summarize
             /\ llm_calls' = llm_calls + (IF response.kind = "none" THEN 0 ELSE 1)
                                        + Cardinality(NeedsSummary(section_chunks))
    /\ section_index' = section_index + 1
    /\ UNCHANGED <<document, strategy, result, pc_c, smart_failed_at,
                   max_chunk_size, overlap_size>>
    /\ UNCHANGED outsideChunk

\* the section loop is over: the strategy stamps total_chunks and returns
StrategyReturn ==
    /\ pc_c = "chunking"
    /\ section_index = Len(document)
    /\ doc_chunks' = StampTotal(doc_chunks)
    /\ pc_c' = "post"
    /\ UNCHANGED <<document, strategy, section_index, result, smart_failed_at, llm_calls,
                   summary_log, max_chunk_size, overlap_size>>
    /\ UNCHANGED outsideChunk

\* SmartChunkingStrategy.chunk_document, lines 197-199: an exception raised
\* while a section is processed is caught, the chunks built so far are
\* dropped and basic_strategy.chunk_document starts on the whole document
SmartRaise ==
    /\ pc_c = "chunking"
    /\ strategy = "smart"
    /\ smart_failed_at < 0
    /\ section_index < Len(document)
    /\ smart_failed_at' = section_index
    /\ doc_chunks' = FallbackStart(doc_chunks)
    /\ section_index' = 0
    /\ UNCHANGED <<document, strategy, result, pc_c, llm_calls, summary_log, max_chunk_size,
                   overlap_size>>
    /\ UNCHANGED outsideChunk

\* ChunkParser.chunk_document returns _post_process_chunks(chunks)
PostProcess ==
    /\ pc_c = "post"
    /\ result' = _post_process_chunks(doc_chunks)
    /\ pc_c' = "done"
    /\ UNCHANGED <<document, strategy, section_index, doc_chunks, smart_failed_at, llm_calls,
                   summary_log, max_chunk_size, overlap_size>>
    /\ UNCHANGED outsideChunk

ChunkNext ==
    \/ ChunkSectionBasic
    \/ ChunkSectionSmart
    \/ SmartRaise
    \/ StrategyReturn
    \/ PostProcess

SpecChunk == ChunkInit /\ [][ChunkNext]_vars

----------------------------------------------------------------------------
(* Claims about chunk_document *)

\* C4: every chunk the smart strategy returns has at most max_chunk_size
\* characters.
C4_SmartChunkBound ==
    (strategy = "smart" /\ pc_c = "done") =>
        \A i \in 1..Len(result) : Len(result[i].content) <= max_chunk_size

\* C5: every chunk the size-based strategy returns has at most
\* max_chunk_size characters.
C5_BasicChunkBound ==
    (strategy = "basic" /\ pc_c \in {"post", "done"}) =>
        /\ \A i \in 1..Len(doc_chunks) : Len(doc_chunks[i].content) <= max_chunk_size
        /\ \A i \in 1..Len(result) : Len(result[i].content) <= max_chunk_size

\* a section longer than max_chunk_size was split, its first piece cut at a
\* word boundary
C5_Witness ==
    /\ strategy = "basic"
    /\ pc_c = "done"
    /\ Len(result) >= 2
    /\ Len(document) = 1
    /\ Len(document[1]) > max_chunk_size
    /\ CutEnd(document[1], 0, max_chunk_size) < max_chunk_size

\* C6: in the list chunk_document returns, no chunk has empty trimmed
\* content, the chunk at position i (0-based) has chunk_index i, and every
\* chunk has total_chunks equal to the length of the list.
C6_PostProcessed ==
    pc_c = "done" =>
        \A i \in 1..Len(result) :
            /\ Strip(result[i].content) # <<>>
            /\ result[i].chunk_index = i - 1
            /\ result[i].total_chunks = Len(result)

C6_Witness ==
    /\ pc_c = "done"
    /\ Len(document) = 2
    /\ Len(document[1]) > 0 /\ Strip(document[1]) = <<>>
    /\ Len(result) >= 2

\* C18: when an exception was raised while the smart strategy processed a
\* document, whatever section it was in, the strategy returns exactly the
\* chunks the size-based strategy produces for the whole document with the
\* same max_chunk_size and overlap_size; until then the fallback has a
\* section left to chunk or is ready to return.
C18_WholeDocumentFallback ==
    smart_failed_at >= 0 =>
        /\ pc_c = "chunking" => section_index <= Len(document)
        /\ pc_c \in {"post", "done"} =>
               doc_chunks = BasicChunkDocument(document, max_chunk_size, overlap_size)
        /\ pc_c = "done" => Len(result) <= Len(doc_chunks)

\* the exception came in the second section, after the first had been
\* chunked by the smart strategy
C18_Witness ==
    /\ pc_c = "done"
    /\ smart_failed_at = 1
    /\ Len(document[1]) > max_chunk_size
    /\ Len(result) >= 3

----------------------------------------------------------------------------
(* SmartChunkingStrategy._find_semantic_breaks called on a text *)

\* texts with room for paragraph breaks
BreakTexts == Texts(MaxBreakTextLen, MaxBreakSpaces)

BreakInit ==
    /\ break_text \in BreakTexts
    /\ break_response \in BreakResponses(Len(break_text))
    /\ semantic_breaks = <<>>
    /\ pc_b = "call"
    /\ ConfigIdle
    /\ SplitIdle
    /\ ChunkIdle
    /\ EmbedIdle
    /\ SearchIdle
    /\ IndexIdle
    /\ RestIdle

\* the completion service answers and _find_semantic_breaks returns
FindSemanticBreaks ==
    /\ pc_b = "call"
    /\ semantic_breaks' = _find_semantic_breaks(break_text, break_response)
    /\ pc_b' = "returned"
    /\ UNCHANGED <<break_text, break_response>>
    /\ UNCHANGED outsideBreak

SpecBreaks == BreakInit /\ [][FindSemanticBreaks]_vars

\* position i (0-based) of t starts a paragraph break: a newline followed,
\* through whitespace only, by another newline, and not itself inside a
\* break that starts earlier
StartsParagraphBreak(t, i) ==
    LET Nl(j) == j \in 0..(Len(t) - 1) /\ CharAt(t, j) = "\n"
        Blank(a, b) == \A k \in a..b : IsSpace(CharAt(t, k))
        Reaches(a) == \E j \in (a + 1)..(Len(t) - 1) : Nl(j) /\ Blank(a, j)
        \* the leftmost, longest, non-overlapping runs
        RECURSIVE MatchStarts(_)
        MatchStarts(from) ==
            LET cands == {a \in from..(Len(t) - 1) : Nl(a) /\ Reaches(a)}
            IN  IF cands = {} THEN {}
                ELSE LET a == SetMin(cands)
                         last == SetMax({j \in (a + 1)..(Len(t) - 1) : Nl(j) /\ Blank(a, j)})
                     IN  {a} \cup MatchStarts(last + 1)
    IN  i \in MatchStarts(0)

\* C19: when the completion call throws, reports failure, or returns text
\* without a parseable integer, _find_semantic_breaks returns the positions
\* of the paragraph breaks of the text, in ascending order.
C19_BreakPointFallback ==
    (pc_b = "returned"
     /\ (break_response.kind = "raise" \/ ~break_response.success
         \/ break_response.ints = <<>>)) =>
        /\ \A i \in 0..(Len(break_text) - 1) :
               StartsParagraphBreak(break_text, i)
                   <=> \E k \in 1..Len(semantic_breaks) : semantic_breaks[k] = i
        /\ \A k \in 1..(Len(semantic_breaks) - 1) : semantic_breaks[k] < semantic_breaks[k + 1]

----------------------------------------------------------------------------
(* DocumentIndexer._generate_embeddings_batch *)

\* how the embedding provider answers one generate_embedding call
Outcomes == {"ok", "raise", "fail", "empty"}

\* LLMProvider.generate_embedding: the call raises, or returns an
\* EmbeddingResult (success flag, embedding vector)
EmbeddingResult(outcome) ==
    [raised |-> outcome = "raise",
     success |-> outcome \in {"ok", "empty"},
     embedding |-> IF outcome = "ok" THEN "vec" ELSE "empty"]

\* DocumentIndexer._generate_chunk_embedding: the vector, or None when the
\* call raised, reported failure or returned an empty vector
_generate_chunk_embedding(r) ==
    IF r.raised
    THEN "None"
    ELSE IF r.success /\ r.embedding # "empty" THEN r.embedding ELSE "None"

\* isinstance(result, Exception)
IsException(r) == r = "Exception"

\* chunks[i : i + batch_size], as positions of the input list
BatchAt(bi) == {k \in 1..Len(in_chunks) : bi < k /\ k <= bi + batch_size}

\* gather returning as soon as one task has finished
GatherComplete_Any(batch) == \E k \in batch : task[k] = "done"

\* asyncio.gather(*embedding_tasks, return_exceptions=True) returns when
\* every task of the batch has finished
GatherComplete(batch) == \A k \in batch : task[k] = "done"

\* only the chunks whose embedding was generated are kept
BatchOutput_DropFailed(batch) ==
    SelectSeq(Ascending(batch),
              LAMBDA k : ~IsException(batch_results[k]) /\ batch_results[k] # "None")

\* lines 189-200: every chunk of the batch is appended, in order, in both
\* branches
BatchOutput(batch) == Ascending(batch)

\* 10 chunks, batch_size 3, the call for chunk #5 raises
ScenarioInit ==
    /\ in_chunks = [k \in 1..10 |-> k]
    /\ batch_size = 3
    /\ provider_outcome = [k \in 1..10 |-> IF k = 5 THEN "raise" ELSE "ok"]

EmbedInit ==
    /\ \/ /\ \E n \in 0..MaxEmbedChunks :
                /\ in_chunks = [k \in 1..n |-> k]
                /\ provider_outcome \in [1..n -> Outcomes]
          /\ batch_size \in 1..MaxBatchSize
       \/ ScenarioInit
    /\ batch_i = 0
    /\ task = [k \in 1..Len(in_chunks) |-> "idle"]
    /\ batch_results = [k \in 1..Len(in_chunks) |-> "None"]
    /\ embedding = [k \in 1..Len(in_chunks) |-> "None"]
    /\ chunks_with_embeddings = <<>>
    /\ successful_embeddings = 0
    /\ pc_e = "loop"
    /\ ConfigIdle
    /\ SplitIdle
    /\ ChunkIdle
    /\ SearchIdle
    /\ BreakIdle
    /\ IndexIdle
    /\ RestIdle

\* lines 178-186: the next batch is sliced and one task per chunk is created
EmbedStartBatch ==
    /\ pc_e = "loop"
    /\ batch_i < Len(in_chunks)
    /\ task' = [k \in 1..Len(in_chunks) |->
                   IF k \in BatchAt(batch_i) THEN "created" ELSE task[k]]
    /\ pc_e' = "gather"
    /\ UNCHANGED <<in_chunks, batch_size, provider_outcome, batch_i, batch_results,
                   embedding, chunks_with_embeddings, successful_embeddings>>
    /\ UNCHANGED outsideEmbed

\* line 238: a task issues its embedding request
TaskCall(k) ==
    /\ task[k] = "created"
    /\ task' = [task EXCEPT ![k] = "inflight"]
    /\ UNCHANGED <<in_chunks, batch_size, provider_outcome, batch_i, batch_results,
                   embedding, chunks_with_embeddings, successful_embeddings, pc_e>>
    /\ UNCHANGED outsideEmbed

\* lines 238-248: the request completes and the task returns
TaskReturn(k) ==
    /\ task[k] = "inflight"
    /\ task' = [task EXCEPT ![k] = "done"]
    /\ batch_results' = [batch_results EXCEPT
           ![k] = _generate_chunk_embedding(EmbeddingResult(provider_outcome[k]))]
    /\ UNCHANGED <<in_chunks, batch_size, provider_outcome, batch_i,
                   embedding, chunks_with_embeddings, successful_embeddings, pc_e>>
    /\ UNCHANGED outsideEmbed

\* lines 186-210: gather returns and the results of the batch are collected
EmbedCollect ==
    /\ pc_e = "gather"
    /\ GatherComplete(BatchAt(batch_i))
    /\ LET batch == BatchAt(batch_i)
           stored == {k \in batch : ~IsException(batch_results[k])}
       IN  /\ embedding' = [k \in 1..Len(in_chunks) |->
                               IF k \in stored THEN batch_results[k] ELSE embedding[k]]
           /\ successful_embeddings' = successful_embeddings + Cardinality(stored)
           /\ chunks_with_embeddings' = chunks_with_embeddings \o BatchOutput(batch)
    /\ batch_i' = batch_i + batch_size
    /\ pc_e' = "loop"
    /\ UNCHANGED <<in_chunks, batch_size, provider_outcome, task, batch_results>>
    /\ UNCHANGED outsideEmbed

\* lines 217-228: the loop is over, the success count is reported and the
\* list returned
EmbedReturn ==
    /\ pc_e = "loop"
    /\ batch_i >= Len(in_chunks)
    /\ pc_e' = "done"
    /\ UNCHANGED <<in_chunks, batch_size, provider_outcome, batch_i, task, batch_results,
                   embedding, chunks_with_embeddings, successful_embeddings>>
    /\ UNCHANGED outsideEmbed

EmbedNext ==
    \/ EmbedStartBatch
    \/ \E k \in 1..Len(in_chunks) : TaskCall(k)
    \/ \E k \in 1..Len(in_chunks) : TaskReturn(k)
    \/ EmbedCollect
    \/ EmbedReturn

SpecEmbed == EmbedInit /\ [][EmbedNext]_vars

----------------------------------------------------------------------------
(* Claims about the embedding batcher *)

Embedded == {k \in 1..Len(in_chunks) : embedding[k] # "None"}

InFlight == {k \in 1..Len(in_chunks) : task[k] = "inflight"}

\* the batch (0-based) the chunk at position k belongs to
BatchOf(k) == (k - 1) \div batch_size

\* C7: the batcher returns exactly the input chunks in the input order; a
\* chunk has an embedding exactly when its call succeeded with a non-empty
\* vector; and until the batcher has returned it can always take a step,
\* whatever calls failed.
C7_FailureIsolation ==
    /\ pc_e = "done" =>
          /\ chunks_with_embeddings = in_chunks
          /\ \A k \in 1..Len(in_chunks) :
                 embedding[k] = IF provider_outcome[k] = "ok" THEN "vec" ELSE "None"
    /\ pc_e \in {"loop", "gather"} => ENABLED EmbedNext

C7_Witness ==
    /\ pc_e = "done"
    /\ Len(in_chunks) = 10
    /\ batch_size = 3
    /\ Len(chunks_with_embeddings) = 10
    /\ embedding[5] = "None"
    /\ Cardinality(Embedded) = 9

\* C8: at most batch_size requests are in flight, and a request of a later
\* batch is issued only when every request of the earlier batches has
\* completed.
C8_SequentialBatches ==
    /\ Cardinality(InFlight) <= batch_size
    /\ \A a, b \in 1..Len(in_chunks) :
           (BatchOf(a) < BatchOf(b) /\ task[b] \in {"inflight", "done"}) => task[a] = "done"

C8_Witness ==
    /\ batch_i > 0
    /\ batch_size >= 2
    /\ Cardinality(InFlight) = batch_size

\* C9: the success count reported at completion equals the number of output
\* chunks whose embedding is populated.
C9_SuccessCount ==
    pc_e = "done" => successful_embeddings = Cardinality(Embedded)

----------------------------------------------------------------------------
(* QueryProcessor.process_query: search_documents, generate_response,      *)
(* _calculate_confidence                                                   *)

\* distances, similarities and confidences are in hundredths: 0.75 is 75

\* distances the vector store reports: -0.25, 0.0, 0.25, ... (a distance may
\* be negative in the inner-product space and above 1.0 in the cosine space)
Distances == {25 * k - 25 : k \in 0..MaxDistanceSteps}

\* thresholds -0.25, 0.0, 0.25, ...
MinSimilarities == {25 * k - 25 : k \in 0..MaxMinSimSteps}

\* s is in ascending order
IsAscending(s) == \A i \in 1..(Len(s) - 1) : s[i] <= s[i + 1]

\* the candidates of the collection for the query, in the order
\* collection.query ranks them: nearest first
Stores == {c \in UNION {[1..n -> Distances] : n \in 0..MaxStored} : IsAscending(c)}

\* ChromaVectorDatabase.search: the first n_results candidates, each with
\* similarity = 1.0 - distance
VectorSearch(candidates, n_results) ==
    [k \in 1..Min2(n_results, Len(candidates)) |->
        [id |-> k, distance |-> candidates[k], similarity |-> 100 - candidates[k]]]

\* every candidate kept, whatever its similarity
FilterBySimilarity_None(raw, threshold) == raw

\* lines 97-120: the results with similarity >= min_similarity, in order
FilterBySimilarity(raw, threshold) ==
    SelectSeq(raw, LAMBDA r : r.similarity >= threshold)

\* search_results[:limit + 1]
Truncate_OneMore(results, n) == SubSeq(results, 1, Min2(n + 1, Len(results)))

\* line 123: search_results[:limit]
Truncate(results, n) == SubSeq(results, 1, Min2(n, Len(results)))

\* only the success flag is tested
QueryEmbeddingFailed_FlagOnly(r) == ~r.success

\* indexer.py:274: not query_result.success or not query_result.embedding
QueryEmbeddingFailed(r) == ~r.success \/ r.embedding = "empty"

\* how the completion provider answers one generate_response call: it
\* raises (every provider raises RuntimeError when its API call fails), or
\* returns a ResponseResult
ResponseOutcomes == {"ok", "raise", "fail", "empty"}

\* ResponseResult (success flag, content)
ResponseResult(outcome) ==
    [raised |-> outcome = "raise",
     success |-> outcome \in {"ok", "empty"},
     content |-> IF outcome = "ok" THEN "text" ELSE "empty"]

\* the fixed messages of generate_response (lines 177 and 216)
NoInformationMessage == "no relevant information"

ErrorMessage == "error while generating a response"

\* the completion provider is asked even when nothing was found
generate_response_NoEmptyCheck(results, outcome) ==
    LET response_result == ResponseResult(outcome)
    IN  IF response_result.raised
        THEN [raised |-> TRUE, answer |-> "none", calls |-> 1]
        ELSE [raised |-> FALSE, calls |-> 1,
              answer |-> IF response_result.success /\ response_result.content # "empty"
                         THEN response_result.content ELSE ErrorMessage]

\* QueryProcessor.generate_response, lines 174-216; outcome is what the
\* completion provider does if it is called.  calls counts the calls of
\* llm_provider.generate_response, raised tells that the exception of the
\* provider left generate_response
generate_response(results, outcome) ==
    IF results = <<>>
    THEN [raised |-> FALSE, answer |-> NoInformationMessage, calls |-> 0]
    ELSE LET response_result == ResponseResult(outcome)
         IN  IF response_result.raised
             THEN [raised |-> TRUE, answer |-> "none", calls |-> 1]
             ELSE [raised |-> FALSE, calls |-> 1,
                   answer |-> IF response_result.success /\ response_result.content # "empty"
                              THEN response_result.content ELSE ErrorMessage]

\* strategies of the confidence score: 0.95 cap, 0.3 "good result"
\* threshold and boost limit, 0.1 boost per good result (processor.py:293-297)
ConfidenceCap == 95

GoodSimilarity == 30

BoostPerResult == 10

MaxBoost == 30

\* number of results with similarity > 0.3
GoodResults(results) ==
    Cardinality({k \in 1..Len(results) : results[k].similarity > GoodSimilarity})

\* the score without the 0.95 cap
_calculate_confidence_NoCap(results) ==
    IF results = <<>> THEN 0
    ELSE Max2(results[1].similarity
              + Min2(GoodResults(results) * BoostPerResult, MaxBoost), 0)

\* the score without the floor at 0.0
_calculate_confidence_NoFloor(results) ==
    IF results = <<>> THEN 0
    ELSE Min2(results[1].similarity
              + Min2(GoodResults(results) * BoostPerResult, MaxBoost), ConfidenceCap)

\* the score without the boost
_calculate_confidence_NoBoost(results) ==
    IF results = <<>> THEN 0
    ELSE Max2(Min2(results[1].similarity, ConfidenceCap), 0)

\* QueryProcessor._calculate_confidence, lines 286-299
_calculate_confidence(results) ==
    IF results = <<>>
    THEN 0
    ELSE LET top_similarity == results[1].similarity
             good_results == GoodResults(results)
             confidence_boost == Min2(good_results * BoostPerResult, MaxBoost)
         IN  Max2(Min2(top_similarity + confidence_boost, ConfidenceCap), 0)

\* search("refund policy", limit=5, min_similarity=0.5) against a store
\* returning distances [0.1, 0.3, 0.6, 0.9]
SearchScenarioInit ==
    /\ store = <<10, 30, 60, 90>>
    /\ limit = 5
    /\ min_similarity = 50

SearchInit ==
    /\ \/ /\ store \in Stores
          /\ limit \in 1..MaxLimit
          /\ min_similarity \in MinSimilarities
       \/ SearchScenarioInit
    /\ raw_results = <<>>
    /\ search_results = <<>>
    /\ pc_q = "start"
    /\ query_outcome = "none"
    /\ store_calls = 0
    /\ completion_outcome = "none"
    /\ completion_calls = 0
    /\ answer = "none"
    /\ confidence = 0
    /\ error = "none"
    /\ ConfigIdle
    /\ SplitIdle
    /\ ChunkIdle
    /\ EmbedIdle
    /\ BreakIdle
    /\ IndexIdle
    /\ RestIdle

\* DocumentIndexer.search_documents, lines 270-275: the query is embedded;
\* an exception of the provider propagates, a failure or an empty vector
\* raises RuntimeError
EmbedQuery ==
    /\ pc_q = "start"
    /\ \E outcome \in Outcomes :
         LET query_result == EmbeddingResult(outcome)
             failed == query_result.raised \/ QueryEmbeddingFailed(query_result)
         IN  /\ query_outcome' = outcome
             /\ pc_q' = IF failed THEN "error" ELSE "embedded"
             /\ error' = IF failed THEN "embedding" ELSE error
    /\ UNCHANGED <<store, limit, min_similarity, raw_results, search_results, store_calls,
                   completion_outcome, completion_calls, answer, confidence>>
    /\ UNCHANGED outsideSearch

\* DocumentIndexer.search_documents, lines 277-286: the store is asked for
\* limit * 2 candidates; a store failure propagates
QueryStore ==
    /\ pc_q = "embedded"
    /\ store_calls' = store_calls + 1
    /\ \/ /\ raw_results' = VectorSearch(store, limit * 2)
          /\ pc_q' = "searched"
          /\ error' = error
       \/ /\ raw_results' = raw_results
          /\ pc_q' = "error"
          /\ error' = "store"
    /\ UNCHANGED <<store, limit, min_similarity, search_results, query_outcome,
                   completion_outcome, completion_calls, answer, confidence>>
    /\ UNCHANGED outsideSearch

\* QueryProcessor.search_documents, lines 96-123: filter, truncate, return
FilterAndReturn ==
    /\ pc_q = "searched"
    /\ search_results' = Truncate(FilterBySimilarity(raw_results, min_similarity), limit)
    /\ pc_q' = "done"
    /\ UNCHANGED <<store, limit, min_similarity, raw_results, query_outcome, store_calls,
                   completion_outcome, completion_calls, answer, confidence, error>>
    /\ UNCHANGED outsideSearch

\* process_query step 3, generate_response on the results found
GenerateResponse ==
    /\ pc_q = "done"
    /\ \E outcome \in ResponseOutcomes :
         LET r == generate_response(search_results, outcome)
         IN  /\ completion_outcome' = IF r.calls > 0 THEN outcome ELSE "none"
             /\ completion_calls' = completion_calls + r.calls
             /\ answer' = r.answer
             /\ pc_q' = IF r.raised THEN "error" ELSE "answered"
             /\ error' = IF r.raised THEN "completion" ELSE error
    /\ UNCHANGED <<store, limit, min_similarity, raw_results, search_results,
                   query_outcome, store_calls, confidence>>
    /\ UNCHANGED outsideSearch

\* process_query step 4, _calculate_confidence, and the QueryResult returned
CalculateConfidence ==
    /\ pc_q = "answered"
    /\ confidence' = _calculate_confidence(search_results)
    /\ pc_q' = "finished"
    /\ UNCHANGED <<store, limit, min_similarity, raw_results, search_results,
                   query_outcome, store_calls, completion_outcome, completion_calls,
                   answer, error>>
    /\ UNCHANGED outsideSearch

SearchNext ==
    \/ EmbedQuery
    \/ QueryStore
    \/ FilterAndReturn
    \/ GenerateResponse
    \/ CalculateConfidence

SpecSearch == SearchInit /\ [][SearchNext]_vars

\* similarities of the results handed to _calculate_confidence on its own:
\* any values, in any order
Similarities == {100 - d : d \in Distances}

ResultLists ==
    UNION {{[k \in 1..n |-> [id |-> k, distance |-> 100 - f[k], similarity |-> f[k]]] :
               f \in [1..n -> Similarities]} : n \in 0..MaxStored}

\* _calculate_confidence called on a list of results
ConfidenceInit ==
    /\ search_results \in ResultLists
    /\ store = <<>>
    /\ limit = 5
    /\ min_similarity = 10
    /\ raw_results = <<>>
    /\ pc_q = "answered"
    /\ query_outcome = "none"
    /\ store_calls = 0
    /\ completion_outcome = "none"
    /\ completion_calls = 0
    /\ answer = "none"
    /\ confidence = 0
    /\ error = "none"
    /\ ConfigIdle
    /\ SplitIdle
    /\ ChunkIdle
    /\ EmbedIdle
    /\ BreakIdle
    /\ IndexIdle
    /\ RestIdle

SpecConfidence == ConfidenceInit /\ [][CalculateConfidence]_vars

----------------------------------------------------------------------------
(* Claims about search_documents *)

\* C10: every result search_documents returns has similarity >=
\* min_similarity.
C10_SimilarityFilter ==
    pc_q = "done" =>
        \A k \in 1..Len(search_results) : search_results[k].similarity >= min_similarity

C10_Witness ==
    /\ pc_q = "done"
    /\ Len(search_results) >= 1
    /\ \E k \in 1..Len(raw_results) : raw_results[k].similarity < min_similarity
    /\ \E k \in 1..Len(search_results) : search_results[k].similarity = min_similarity

\* search_documents has returned its list
SearchReturned == pc_q \in {"done", "answered", "finished"}

\* C11: search_documents returns at most limit results, in non-increasing
\* order of similarity.
C11_LimitAndOrder ==
    SearchReturned =>
        /\ Len(search_results) <= limit
        /\ \A k \in 1..(Len(search_results) - 1) :
               search_results[k].similarity >= search_results[k + 1].similarity

\* more candidates pass the filter than limit allows, with different
\* similarities
C11_Witness ==
    /\ pc_q = "done"
    /\ Len(FilterBySimilarity(raw_results, min_similarity)) > limit
    /\ Len(search_results) = limit
    /\ limit >= 2
    /\ search_results[1].similarity > search_results[2].similarity

\* C12: when the query embedding cannot be produced (the provider reports
\* failure or returns no vector), the search ends with an error, no result is
\* returned and the vector store is not queried.
C12_QueryEmbeddingFatal ==
    query_outcome \in {"fail", "empty"} =>
        /\ pc_q = "error"
        /\ error = "embedding"
        /\ search_results = <<>>
        /\ raw_results = <<>>
        /\ store_calls = 0

\* the provider returned success with an empty vector
C12_Witness ==
    /\ query_outcome = "empty"
    /\ pc_q = "error"
    /\ store # <<>>

----------------------------------------------------------------------------
(* Claims about the confidence score and generate_response *)

\* C13: the confidence computed for any list of results lies between 0.0
\* and 0.95.
C13_ConfidenceBounds ==
    pc_q = "finished" => (0 <= confidence /\ confidence <= 95)

\* a list with a similarity above 1 and one below 0, in an order no ranked
\* search returns
C13_Witness ==
    /\ pc_q = "finished"
    /\ Len(search_results) >= 2
    /\ search_results[1].similarity < 0
    /\ \E k \in 1..Len(search_results) : search_results[k].similarity > 100

\* C14: once process_query has computed the confidence, it is 0.0 exactly
\* when search_documents returned no result.
C14_ZeroIffEmpty ==
    pc_q = "finished" => (confidence = 0 <=> search_results = <<>>)

\* C14 as amended: an empty list gives 0.0, a non-empty list whose first
\* result has similarity > 0 gives a confidence > 0.0, and a non-empty list
\* whose results all have similarity <= 0 gives 0.0.
C14_ZeroIffNothingPositive ==
    pc_q = "finished" =>
        /\ search_results = <<>> => confidence = 0
        /\ (search_results # <<>> /\ search_results[1].similarity > 0) => confidence > 0
        /\ (\A k \in 1..Len(search_results) : search_results[k].similarity <= 0)
               => confidence = 0

\* a non-empty list of results, none with a positive similarity
C14_Witness ==
    /\ pc_q = "finished"
    /\ Len(search_results) >= 2
    /\ search_results[1].similarity = 0
    /\ confidence = 0

\* C15: for a non-empty result list, confidence = top + min(0.1 * k, 0.3)
\* clamped to [0, 0.95], top the highest similarity of the list and k the
\* number of results with similarity > 0.3; and the search with limit 5 and
\* min_similarity 0.5 over distances 0.1, 0.3, 0.6, 0.9 sees similarities
\* 0.9, 0.7, 0.4, 0.1, returns the two results 0.9 and 0.7 and has
\* confidence 0.95.
C15_ConfidenceFormula ==
    /\ (pc_q = "finished" /\ search_results # <<>>) =>
           LET sims == {search_results[i].similarity : i \in 1..Len(search_results)}
               k == Cardinality({i \in 1..Len(search_results) :
                                    search_results[i].similarity > 30})
               boost == IF 10 * k < 30 THEN 10 * k ELSE 30
               raw == SetMax(sims) + boost
           IN  confidence = IF raw > 95 THEN 95 ELSE IF raw < 0 THEN 0 ELSE raw
    /\ (store = <<10, 30, 60, 90>> /\ limit = 5 /\ min_similarity = 50) =>
           /\ pc_q \in {"searched", "done", "answered", "finished"} =>
                  /\ Len(raw_results) = 4
                  /\ \A i \in 1..4 : raw_results[i].similarity = <<90, 70, 40, 10>>[i]
           /\ pc_q \in {"done", "answered", "finished"} =>
                  /\ Len(search_results) = 2
                  /\ search_results[1].similarity = 90
                  /\ search_results[2].similarity = 70
           /\ pc_q = "finished" => confidence = 95

C15_Witness ==
    /\ pc_q = "finished"
    /\ store = <<10, 30, 60, 90>>
    /\ limit = 5
    /\ min_similarity = 50
    /\ Len(search_results) = 2
    /\ confidence = 95

\* C16: generate_response never ends with an exception, whatever the
\* completion provider does, and answers with the fixed error message when
\* the provider fails or returns nothing.
C16_NeverRaises ==
    /\ error # "completion"
    /\ (completion_outcome \in {"raise", "fail", "empty"} /\ pc_q \in {"answered", "finished"})
           => answer = ErrorMessage

\* C17: with no search result, generate_response returns the fixed "no
\* relevant information" message and the completion provider is not called.
C17_NoResultsNoCompletion ==
    (search_results = <<>> /\ pc_q \in {"answered", "finished", "error"}) =>
        /\ completion_calls = 0
        /\ completion_outcome = "none"
        /\ error # "completion"
        /\ pc_q \in {"answered", "finished"} => answer = "no relevant information"

\* the store had candidates, none passed the filter
C17_Witness ==
    /\ pc_q = "answered"
    /\ raw_results # <<>>
    /\ search_results = <<>>
    /\ answer = NoInformationMessage

----------------------------------------------------------------------------
(* DocumentIndexer.index_document *)

\* ChunkParser.__init__ (parser.py:29-41); strategy is "None" until
\* chunk_document creates the smart strategy
ChunkParser(custom_strategy, smart, M, O) ==
    [exists |-> TRUE, use_smart_chunking |-> smart,
     strategy |-> IF custom_strategy # "None" THEN custom_strategy
                  ELSE IF smart THEN "None" ELSE "basic",
     max_chunk_size |-> M, overlap_size |-> O]

\* DocumentIndexer._ensure_providers, lines 48-53: a missing parser is
\* created with use_smart_chunking=True, max_chunk_size=1000, overlap_size=100
EnsuredParser(parser) ==
    IF parser.exists THEN parser ELSE ChunkParser("None", TRUE, 1000, 100)

\* index_document, lines 90-91: the flag is set when smart chunking is asked
\* for and left as it is otherwise
WithSmartFlag(parser, use_smart) ==
    IF use_smart THEN [parser EXCEPT !.use_smart_chunking = TRUE] ELSE parser

\* ChunkParser.chunk_document, lines 56-70: the strategy that chunks
ResolveStrategy(parser) ==
    IF parser.use_smart_chunking /\ parser.strategy = "None"
    THEN "smart"
    ELSE IF parser.strategy = "None" THEN "basic" ELSE parser.strategy

\* chunk sizes and overlaps of the parsers handed to the indexer
IndexChunkSizes == {2}

IndexOverlaps == {1}

\* the chunk parser the indexer is constructed with
IndexParsers ==
    {NoParser} \cup
    {ChunkParser(custom_strategy, smart, M, O) :
        custom_strategy \in {"None", "basic", "smart"}, smart \in BOOLEAN,
        M \in IndexChunkSizes, O \in IndexOverlaps}

\* full texts of the sections of the documents indexed
IndexSectionTexts == {<<"a", "a", "a">>, <<"a", " ", "a">>, <<" ">>}

IndexDocuments == UNION {[1..n -> IndexSectionTexts] : n \in 0..MaxIndexSections}

\* the fields of ChunkMetadata (models.py:7-23)
ChunkMetadataFields ==
    {"source_document_id", "source_tab", "source_section", "chunk_index", "total_chunks",
     "start_position", "end_position", "overlap_before", "overlap_after", "heading_level",
     "contains_question", "estimated_tokens", "custom_metadata"}

\* the fields of chunk.metadata that add_chunks reads for a chunk with an
\* embedding (vectorizer.py:165-171)
AddChunksMetadataReads ==
    {"source_document_id", "source_tab", "source_tab_id", "source_section",
     "heading_level", "contains_question", "estimated_tokens"}

\* what the collection of that name holds when the indexer is constructed:
\* nothing, or a chunk of a document stored earlier (document_id 0)
StoredCollections == {<<>>, <<[document_id |-> 0, content |-> <<"a">>]>>}

\* create_collection with delete in place of delete and create
create_collection_KeepExisting(existing) == existing

\* ChromaVectorDatabase.create_collection: the collection of that name is
\* deleted, whatever it held, and created empty
create_collection(existing) == <<>>

\* the entries collection.add stores: one per chunk with an embedding, in
\* the order of the chunks
AddedEntries(chunk_list, embedded, document_id) ==
    [k \in 1..Cardinality(embedded) |->
        [document_id |-> document_id, content |-> chunk_list[Ascending(embedded)[k]].content]]

IndexInit ==
    /\ chunk_parser \in IndexParsers
    /\ use_smart_chunking = TRUE
    /\ collection \in StoredCollections
    /\ index_calls = 0
    /\ pc_i = "idle"
    /\ final_stats = NoStats
    /\ index_error = "none"
    /\ collection_before = collection
    /\ embedded_chunks = {}
    /\ ConfigIdle
    /\ SplitIdle
    /\ ChunkIdle
    /\ EmbedIdle
    /\ SearchIdle
    /\ BreakIdle
    /\ RestIdle

\* index_document up to the call of strategy.chunk_document: providers are
\* ensured, the flag is set, the parser resolves its strategy
IndexStart ==
    /\ pc_i \in {"idle", "returned", "failed"}
    /\ index_calls < MaxIndexCalls
    /\ \E use_smart \in BOOLEAN, doc \in IndexDocuments :
         LET parser == WithSmartFlag(EnsuredParser(chunk_parser), use_smart)
         IN  /\ use_smart_chunking' = use_smart
             /\ chunk_parser' = [parser EXCEPT !.strategy = ResolveStrategy(parser)]
             /\ strategy' = ResolveStrategy(parser)
             /\ max_chunk_size' = parser.max_chunk_size
             /\ overlap_size' = parser.overlap_size
             /\ document' = doc
    /\ section_index' = 0
    /\ doc_chunks' = <<>>
    /\ result' = <<>>
    /\ smart_failed_at' = -1
    /\ llm_calls' = 0
    /\ summary_log' = <<>>
    /\ pc_c' = "chunking"
    /\ pc_i' = "chunking"
    /\ index_calls' = index_calls + 1
    /\ final_stats' = NoStats
    /\ index_error' = "none"
    /\ collection_before' = collection
    /\ embedded_chunks' = {}
    /\ UNCHANGED collection
    /\ UNCHANGED outsideIndex

\* an exception leaves chunk_parser.chunk_document (indexer.py:93) and
\* index_document with it: nothing after line 93 runs
IndexChunkingRaise ==
    /\ pc_i = "chunking"
    /\ pc_c # "done"
    /\ pc_i' = "failed"
    /\ index_error' = "chunking"
    /\ pc_c' = "failed"
    /\ UNCHANGED <<chunk_parser, use_smart_chunking, collection, index_calls, final_stats,
                   collection_before, embedded_chunks>>
    /\ UNCHANGED <<document, strategy, section_index, doc_chunks, result, smart_failed_at,
                   llm_calls, summary_log, max_chunk_size, overlap_size>>
    /\ UNCHANGED outsideIndex

\* index_document step 2, lines 98-103: every chunk gets an embedding or is
\* kept without one (a failed embedding call, or generate_embeddings=False)
IndexEmbed ==
    /\ pc_i = "chunking"
    /\ pc_c = "done"
    /\ embedded_chunks' \in SUBSET (1..Len(result))
    /\ pc_i' = "embedded"
    /\ UNCHANGED <<chunk_parser, use_smart_chunking, collection, index_calls, final_stats,
                   index_error, collection_before>>
    /\ UNCHANGED <<chunkVars, max_chunk_size, overlap_size>>
    /\ UNCHANGED outsideIndex

\* index_document line 116
IndexCreateCollection ==
    /\ pc_i = "embedded"
    /\ collection' = create_collection(collection)
    /\ pc_i' = "created"
    /\ UNCHANGED <<chunk_parser, use_smart_chunking, index_calls, final_stats, index_error,
                   collection_before, embedded_chunks>>
    /\ UNCHANGED <<chunkVars, max_chunk_size, overlap_size>>
    /\ UNCHANGED outsideIndex

\* index_document line 117, ChromaVectorDatabase.add_chunks: an empty list
\* returns at once; a chunk with an embedding has its metadata read, and
\* every chunk of both strategies carries a ChunkMetadata, so a field that
\* ChunkMetadata lacks raises AttributeError, re-raised at lines 191-193;
\* with no embedding at all collection.add is handed empty lists, which the
\* store accepts or rejects
IndexAddChunks ==
    /\ pc_i = "created"
    /\ \/ /\ result = <<>>
          /\ pc_i' = "added"
          /\ UNCHANGED <<collection, index_error>>
       \/ /\ result # <<>>
          /\ embedded_chunks # {}
          /\ IF AddChunksMetadataReads \subseteq ChunkMetadataFields
             THEN /\ collection' = collection \o
                         AddedEntries(result, embedded_chunks, index_calls)
                  /\ pc_i' = "added"
                  /\ UNCHANGED index_error
             ELSE /\ pc_i' = "failed"
                  /\ index_error' = "AttributeError"
                  /\ UNCHANGED collection
       \/ /\ result # <<>>
          /\ embedded_chunks = {}
          /\ \/ /\ pc_i' = "added"
                /\ UNCHANGED index_error
             \/ /\ pc_i' = "failed"
                /\ index_error' = "store"
          /\ UNCHANGED collection
    /\ UNCHANGED <<chunk_parser, use_smart_chunking, index_calls, final_stats,
                   collection_before, embedded_chunks>>
    /\ UNCHANGED <<chunkVars, max_chunk_size, overlap_size>>
    /\ UNCHANGED outsideIndex

\* index_document step 4, lines 121-148: the statistics are assembled and
\* the success rate chunks_with_embeddings / chunks_created is printed
\* before they are returned, a division by zero for a document without
\* chunks
IndexStatistics ==
    /\ pc_i = "added"
    /\ IF Len(result) = 0
       THEN /\ pc_i' = "failed"
            /\ index_error' = "ZeroDivisionError"
            /\ UNCHANGED final_stats
       ELSE /\ pc_i' = "returned"
            /\ final_stats' = [indexing_complete |-> TRUE,
                               chunks_created |-> Len(result),
                               chunks_with_embeddings |-> Cardinality(embedded_chunks)]
            /\ UNCHANGED index_error
    /\ UNCHANGED <<chunk_parser, use_smart_chunking, collection, index_calls,
                   collection_before, embedded_chunks>>
    /\ UNCHANGED <<chunkVars, max_chunk_size, overlap_size>>
    /\ UNCHANGED outsideIndex

IndexNext ==
    \/ IndexStart
    \/ ChunkSectionBasic
    \/ ChunkSectionSmart
    \/ SmartRaise
    \/ StrategyReturn
    \/ PostProcess
    \/ IndexChunkingRaise
    \/ IndexEmbed
    \/ IndexCreateCollection
    \/ IndexAddChunks
    \/ IndexStatistics

SpecIndex == IndexInit /\ [][IndexNext]_vars

\* C20: while index_document called with use_smart_chunking=False chunks the
\* document, the size-based strategy is the one that chunks and no
\* completion or summarize call is made.
C20_SmartOnlyWhenEnabled ==
    (pc_i = "chunking" /\ ~use_smart_chunking) =>
        /\ strategy = "basic"
        /\ llm_calls = 0

----------------------------------------------------------------------------
(* The 2500-character scenario of the size-based strategy, at 1/50 scale *)

\* the scenario's section length, max_chunk_size and overlap_size divided by
\* 50: every comparison of lines 117-132 is linear in the three, and
\* 0.8 * max_chunk_size stays an integer
ScenarioLen == 50

ScenarioChunkSize == 20

ScenarioOverlap == 2

RECURSIVE TextsWithSpaces(_, _)
\* all texts of length n with at most k spaces, the character rfind looks for
TextsWithSpaces(n, k) ==
    IF k = 0
    THEN {[i \in 1..n |-> "a"]}
    ELSE LET fewer == TextsWithSpaces(n, k - 1)
         IN  fewer \cup {[t EXCEPT ![p] = " "] : t \in fewer, p \in 1..n}

ScenarioTexts == TextsWithSpaces(ScenarioLen, MaxScenarioSpaces)

\* the section of the scenario, and the short sections of Documents for the
\* other multi-piece splits
BasicInit ==
    /\ \/ /\ document \in {<<t>> : t \in ScenarioTexts}
          /\ max_chunk_size = ScenarioChunkSize
          /\ overlap_size = ScenarioOverlap
       \/ /\ document \in Documents
          /\ max_chunk_size \in 1..MaxSecChunkSize
          /\ overlap_size \in SecOverlaps
    /\ strategy = "basic"
    /\ section_index = 0
    /\ doc_chunks = <<>>
    /\ result = <<>>
    /\ pc_c = "chunking"
    /\ smart_failed_at = -1
    /\ llm_calls = 0
    /\ summary_log = <<>>
    /\ SplitIdle
    /\ EmbedIdle
    /\ SearchIdle
    /\ BreakIdle
    /\ IndexIdle
    /\ RestIdle

BasicNext ==
    \/ ChunkSectionBasic
    \/ StrategyReturn
    \/ PostProcess

\* ChunkParser.chunk_document with the size-based strategy
SpecBasic == BasicInit /\ [][BasicNext]_vars

\* C21: the scenario section (length 2500, max_chunk_size 1000, overlap_size
\* 100, here at 1/50 scale), wherever its whitespace lies, is chunked into
\* exactly 3 chunks whose overlap fields are (0, O), (O, O), (O, 0); and every
\* section split into two or more pieces gives its first chunk
\* overlap_before = 0, its last chunk overlap_after = 0 and every other
\* overlap field overlap_size.
C21_ScenarioOverlaps ==
    [][section_index' = section_index + 1 =>
          LET new == SubSeq(doc_chunks', Len(doc_chunks) + 1, Len(doc_chunks'))
              n == Len(new)
          IN  /\ (Len(document[section_index']) = ScenarioLen
                  /\ max_chunk_size = ScenarioChunkSize
                  /\ overlap_size = ScenarioOverlap) =>
                     /\ n = 3
                     /\ new[1].overlap_after = overlap_size
                     /\ new[2].overlap_before = overlap_size
                     /\ new[2].overlap_after = overlap_size
                     /\ new[3].overlap_before = overlap_size
                     /\ new[3].overlap_after = 0
              /\ n >= 2 =>
                     \A i \in 1..n :
                         /\ new[i].overlap_before = (IF i = 1 THEN 0 ELSE overlap_size)
                         /\ new[i].overlap_after = (IF i = n THEN 0 ELSE overlap_size)]_vars

\* the scenario section was chunked, its first piece cut at a space before
\* start + max_chunk_size - overlap_size and its second at a later space
C21_Witness ==
    /\ pc_c = "done"
    /\ Len(document) = 1
    /\ Len(document[1]) = ScenarioLen
    /\ max_chunk_size = ScenarioChunkSize
    /\ CutEnd(document[1], 0, max_chunk_size) = max_chunk_size - overlap_size - 1
    /\ CutEnd(document[1], max_chunk_size - overlap_size, max_chunk_size)
           = 2 * max_chunk_size - overlap_size - 1
    /\ Len(result) = 3
    /\ result[2].overlap_before = overlap_size
    /\ result[3].overlap_after = 0

----------------------------------------------------------------------------
(* DocumentSection.get_full_text *)

\* "\n\n".join(text_parts)
RECURSIVE JoinParagraphs(_)
JoinParagraphs(text_parts) ==
    IF text_parts = <<>> THEN <<>>
    ELSE IF Len(text_parts) = 1 THEN Head(text_parts)
    ELSE Head(text_parts) \o <<"\n", "\n">> \o JoinParagraphs(Tail(text_parts))

\* blank elements are kept in the joined text
ElementParts_KeepBlank(elements) == [i \in 1..Len(elements) |-> Strip(elements[i])]

\* lines 36-38: the stripped text of every element whose text is not blank
ElementParts(elements) ==
    LET kept == SelectSeq(elements, LAMBDA element_text : Strip(element_text) # <<>>)
    IN  [i \in 1..Len(kept) |-> Strip(kept[i])]

RECURSIVE get_full_text(_)
\* DocumentSection.get_full_text, lines 27-46; an element is represented by
\* its text
get_full_text(section) ==
    LET title_part == IF section.title # <<>> THEN <<section.title>> ELSE <<>>
        subsection_texts == [i \in 1..Len(section.subsections) |->
                                get_full_text(section.subsections[i])]
        kept == SelectSeq(subsection_texts, LAMBDA subsection_text : Strip(subsection_text) # <<>>)
    IN  JoinParagraphs(title_part \o ElementParts(section.elements)
                       \o [i \in 1..Len(kept) |-> Strip(kept[i])])

DocumentSection(title, level, elements, subsections) ==
    [title |-> title, level |-> level, elements |-> elements, subsections |-> subsections]

\* section titles: none, a word, a blank that is not empty
SectionTitles == {<<>>, <<"t">>, <<" ">>}

\* element lists: texts that are blank, padded with whitespace, or plain
ElementLists ==
    {<<>>,
     << <<" ">> >>,
     << <<" ", "a", "\n">>, <<"\n">>, <<"b">> >>}

RECURSIVE SectionsOfSize(_, _)
RECURSIVE SubsectionLists(_, _)
\* all sections at the given level whose tree has exactly n nodes
SectionsOfSize(n, level) ==
    {DocumentSection(title, level, elements, subsections) :
        title \in SectionTitles, elements \in ElementLists,
        subsections \in SubsectionLists(n - 1, level + 1)}

\* all lists of sections with n nodes in total
SubsectionLists(n, level) ==
    IF n = 0
    THEN {<<>>}
    ELSE UNION {{<<first>> \o rest : first \in SectionsOfSize(k, level),
                                     rest \in SubsectionLists(n - k, level)} :
                k \in 1..n}

\* all level-1 sections whose tree has at most max_nodes nodes
SectionTrees(max_nodes) == UNION {SectionsOfSize(n, 1) : n \in 1..max_nodes}

TextInit ==
    /\ doc_section \in SectionTrees(MaxSectionNodes)
    /\ full_text = <<>>
    /\ pc_t = "call"
    /\ RepeatIdle
    /\ StatsIdle
    /\ ParseIdle
    /\ ConfigIdle
    /\ SplitIdle
    /\ ChunkIdle
    /\ EmbedIdle
    /\ SearchIdle
    /\ BreakIdle
    /\ IndexIdle

\* section.get_full_text() is called and returns
GetFullText ==
    /\ pc_t = "call"
    /\ full_text' = get_full_text(doc_section)
    /\ pc_t' = "returned"
    /\ UNCHANGED doc_section
    /\ UNCHANGED outsideText

SpecText == TextInit /\ [][GetFullText]_vars

\* the texts the claim lists for a section, in its order: the title if not
\* empty, the trimmed non-blank element texts, the trimmed non-blank full
\* texts of the subsections
ListedParts(section) ==
    LET n == Len(section.elements)
        m == Len(section.subsections)
        sub(j) == get_full_text(section.subsections[j])
        \* positions 0 (title), 1..n (elements), n+1..n+m (subsections) that contribute
        present == {k \in 0..(n + m) :
                       IF k = 0 THEN section.title # <<>>
                       ELSE IF k <= n THEN \E i \in 1..Len(section.elements[k]) :
                                               ~IsSpace(section.elements[k][i])
                       ELSE \E i \in 1..Len(sub(k - n)) : ~IsSpace(sub(k - n)[i])}
        order == Ascending(present)
    IN  [q \in 1..Len(order) |->
            IF order[q] = 0 THEN section.title
            ELSE IF order[q] <= n THEN Strip(section.elements[order[q]])
            ELSE Strip(sub(order[q] - n))]

\* where part q of a list of parts starts (0-based) when the parts are
\* separated by two characters
RECURSIVE PartOffset(_, _)
PartOffset(parts, q) == IF q = 1 THEN 0 ELSE PartOffset(parts, q - 1) + Len(parts[q - 1]) + 2

\* C22: the text get_full_text returns consists of the listed parts of the
\* section, in order, each followed by exactly one double newline except the
\* last, and of nothing else; this holds for the section and for every
\* subsection below it.
C22_FullTextLayout ==
    pc_t = "returned" =>
        LET RECURSIVE LaidOut(_)
            LaidOut(section) ==
                LET parts == ListedParts(section)
                    joined == get_full_text(section)
                    n == Len(parts)
                IN  /\ Len(joined) = IF n = 0 THEN 0
                                     ELSE PartOffset(parts, n) + Len(parts[n])
                    /\ \A q \in 1..n :
                           /\ Slice(joined, PartOffset(parts, q),
                                    PartOffset(parts, q) + Len(parts[q])) = parts[q]
                           /\ q < n =>
                                  Slice(joined, PartOffset(parts, q) + Len(parts[q]),
                                        PartOffset(parts, q) + Len(parts[q]) + 2)
                                      = <<"\n", "\n">>
                    /\ \A j \in 1..Len(section.subsections) : LaidOut(section.subsections[j])
        IN  /\ full_text = get_full_text(doc_section)
            /\ LaidOut(doc_section)

\* a titled section with a blank element, a padded element, a blank
\* subsection and a subsection with text has returned its full text
C22_Witness ==
    /\ pc_t = "returned"
    /\ doc_section.title # <<>>
    /\ \E i \in 1..Len(doc_section.elements) : Strip(doc_section.elements[i]) = <<>>
    /\ \E i \in 1..Len(doc_section.elements) :
           /\ Strip(doc_section.elements[i]) # <<>>
           /\ Strip(doc_section.elements[i]) # doc_section.elements[i]
    /\ Len(doc_section.subsections) = 2
    /\ Strip(get_full_text(doc_section.subsections[1])) = <<>>
    /\ get_full_text(doc_section.subsections[1]) # <<>>
    /\ Strip(get_full_text(doc_section.subsections[2])) # <<>>
    /\ Len(full_text) > 0

----------------------------------------------------------------------------
(* _split_text_with_overlap called again and again on one strategy object *)

\* the texts handed to the splitter: one cut hard, one cut at a space, one
\* blank, one with a window of whitespace only
RepeatTexts ==
    {<<"a", "a", "a">>,
     <<"a", "a", "a", "a", "a", " ", "a", "a">>,
     <<" ">>,
     <<"a", " ", " ", "a">>}

\* max_chunk_size and overlap_size the strategy object was constructed with
RepeatChunkSizes == {2, 6}

RepeatOverlaps == {0, 1}

RepeatInit ==
    /\ text \in RepeatTexts
    /\ max_chunk_size \in RepeatChunkSizes
    /\ overlap_size \in RepeatOverlaps
    /\ start = 0
    /\ chunks = <<>>
    /\ slices = <<>>
    /\ iterations = 0
    /\ pc = "loop"
    /\ split_calls = 0
    /\ split_returns = <<>>
    /\ ChunkIdle
    /\ EmbedIdle
    /\ SearchIdle
    /\ BreakIdle
    /\ IndexIdle
    /\ TextIdle
    /\ StatsIdle
    /\ ParseIdle

\* the list of the previous call is reused by the next one
SplitCall_KeepChunks ==
    /\ pc = "done"
    /\ split_calls < MaxSplitCalls
    /\ \E t \in RepeatTexts : text' = t
    /\ start' = 0
    /\ slices' = <<>>
    /\ iterations' = 0
    /\ pc' = "loop"
    /\ split_calls' = split_calls + 1
    /\ split_returns' = Append(split_returns, [text |-> text, chunks |-> chunks])
    /\ UNCHANGED <<chunks, max_chunk_size, overlap_size>>
    /\ UNCHANGED outsideRepeat

\* the caller has the list of the call that returned and calls the splitter
\* again, on any text: lines 114-115 start from a fresh list and cursor, and
\* the configuration of the object is as it was; split_returns keeps what
\* every earlier call was given and returned
SplitCall ==
    /\ pc = "done"
    /\ split_calls < MaxSplitCalls
    /\ \E t \in RepeatTexts : text' = t
    /\ start' = 0
    /\ chunks' = <<>>
    /\ slices' = <<>>
    /\ iterations' = 0
    /\ pc' = "loop"
    /\ split_calls' = split_calls + 1
    /\ split_returns' = Append(split_returns, [text |-> text, chunks |-> chunks])
    /\ UNCHANGED <<max_chunk_size, overlap_size>>
    /\ UNCHANGED outsideRepeat

RepeatNext ==
    \/ SplitStep
    \/ SplitReturn
    \/ SplitCall

SpecRepeat == RepeatInit /\ [][RepeatNext]_vars

\* C23: a call of the splitter returns the same ordered list of pieces as
\* every earlier call on the same text made on the same strategy object,
\* whatever other texts were split in between.
C23_Idempotent ==
    pc = "done" =>
        \A k \in 1..Len(split_returns) :
            split_returns[k].text = text => split_returns[k].chunks = chunks

\* the third call has returned two or more pieces for the text of the first
\* call, after a call on another text
C23_Witness ==
    /\ pc = "done"
    /\ Len(split_returns) = 2
    /\ split_returns[1].text = text
    /\ split_returns[2].text # text
    /\ split_returns[2].chunks # <<>>
    /\ Len(chunks) >= 2

----------------------------------------------------------------------------
(* ChunkParser.get_chunk_statistics on the chunks chunk_document returned *)

\* Chunk.get_word_count: len(content.split()), the number of maximal runs of
\* characters that are not whitespace
get_word_count(content) ==
    Cardinality({i \in 1..Len(content) :
                    ~IsSpace(content[i]) /\ (i = 1 \/ IsSpace(content[i - 1]))})

\* Chunk.get_token_count: one token for every 4 characters
get_token_count(content) == Len(content) \div 4

RECURSIVE SumSeq(_)
\* sum(...) of a list of numbers
SumSeq(numbers) == IF numbers = <<>> THEN 0 ELSE Head(numbers) + SumSeq(Tail(numbers))

\* the keys of the statistics of a list that is not empty (lines 129-153);
\* the counts of questions, sections and tabs read metadata fields that the
\* chunk records here do not carry
ChunkStatistics(cs) ==
    LET total_chars == SumSeq([i \in 1..Len(cs) |-> Len(cs[i].content)])
        chunk_sizes == {Len(cs[i].content) : i \in 1..Len(cs)}
    IN  [total_chunks |-> Len(cs),
         total_characters |-> total_chars,
         total_words |-> SumSeq([i \in 1..Len(cs) |-> get_word_count(cs[i].content)]),
         estimated_tokens |-> SumSeq([i \in 1..Len(cs) |-> get_token_count(cs[i].content)]),
         average_chunk_size |-> IF cs = <<>> THEN 0 ELSE total_chars \div Len(cs),
         min_chunk_size |-> IF cs = <<>> THEN 0 ELSE SetMin(chunk_sizes),
         max_chunk_size |-> IF cs = <<>> THEN 0 ELSE SetMax(chunk_sizes),
         chunks_with_summaries |->
             Cardinality({i \in 1..Len(cs) : cs[i].summary # "None"})]

\* every key is reported for the empty list as well
get_chunk_statistics_AllKeys(cs) == ChunkStatistics(cs)

\* ChunkParser.get_chunk_statistics, lines 112-153
get_chunk_statistics(cs) ==
    IF cs = <<>> THEN [total_chunks |-> 0] ELSE ChunkStatistics(cs)

\* documents of no section or one
StatsDocuments == {doc \in Documents : Len(doc) <= 1}

StatsInit ==
    /\ document \in StatsDocuments
    /\ max_chunk_size \in 1..MaxSecChunkSize
    /\ strategy \in {"basic", "smart"}
    /\ overlap_size \in SecOverlaps
    /\ section_index = 0
    /\ doc_chunks = <<>>
    /\ result = <<>>
    /\ pc_c = "chunking"
    /\ smart_failed_at = -1
    /\ llm_calls = 0
    /\ summary_log = <<>>
    /\ statistics = [total_chunks |-> 0]
    /\ pc_s = "idle"
    /\ SplitIdle
    /\ EmbedIdle
    /\ SearchIdle
    /\ BreakIdle
    /\ IndexIdle
    /\ RepeatIdle
    /\ TextIdle
    /\ ParseIdle

\* the caller hands the chunks chunk_document returned to get_chunk_statistics
GetChunkStatistics ==
    /\ pc_c = "done"
    /\ pc_s = "idle"
    /\ statistics' = get_chunk_statistics(result)
    /\ pc_s' = "returned"
    /\ UNCHANGED outsideStats

StatsNext ==
    \/ ChunkSectionBasic
    \/ ChunkSectionSmart
    \/ SmartRaise
    \/ StrategyReturn
    \/ PostProcess
    \/ GetChunkStatistics

SpecStats == StatsInit /\ [][StatsNext]_vars

\* C24: for a document without sections chunk_document returns the empty
\* list with either strategy and no completion or summarize call is made;
\* the statistics of an empty list of chunks are a map whose only key is
\* total_chunks, with value 0.
C24_EmptyDocument ==
    /\ (Len(document) = 0 /\ pc_c = "done") =>
           /\ result = <<>>
           /\ llm_calls = 0
           /\ summary_log = <<>>
    /\ (pc_s = "returned" /\ result = <<>>) =>
           /\ DOMAIN statistics = {"total_chunks"}
           /\ statistics.total_chunks = 0

\* the smart strategy was given a document without sections and the
\* statistics of what it returned were taken
C24_Witness ==
    /\ Len(document) = 0
    /\ strategy = "smart"
    /\ pc_c = "done"
    /\ pc_s = "returned"

----------------------------------------------------------------------------
(* The word-boundary cut of the size-based splitter *)

\* C25: in a loop iteration whose window end min(start + max_chunk_size,
\* len(text)) lies before the end of the text, the piece is cut at the last
\* whitespace character in the closed range [start + 0.8 * max_chunk_size,
\* window end] if there is one, and at the window end otherwise.
C25_WordBoundaryCut ==
    [][(iterations' = iterations + 1 /\ Len(slices') > Len(slices)) =>
          LET window_end == Min2(start + max_chunk_size, Len(text))
              in_range == {i \in start..window_end :
                              /\ 10 * i >= 10 * start + 8 * max_chunk_size
                              /\ IsSpace(CharAt(text, i))}
          IN  window_end < Len(text) =>
                  slices'[Len(slices')][2] =
                      (IF in_range # {} THEN SetMax(in_range) ELSE window_end)]_vars

----------------------------------------------------------------------------
(* SmartChunkingStrategy._split_at_break_points, one break point per step *)

RECURSIVE NonDecreasing(_, _, _)
\* the lists of at most n positions from lo to hi in non-decreasing order:
\* what sorted(break_points) and _find_paragraph_breaks return
NonDecreasing(n, lo, hi) ==
    IF n = 0 \/ lo > hi
    THEN {<<>>}
    ELSE {<<>>} \cup UNION {{<<b>> \o rest : rest \in NonDecreasing(n - 1, b, hi)} :
                            b \in lo..hi}

WalkInit ==
    /\ text \in Texts(MaxBreakTextLen, 1)
    /\ semantic_breaks \in NonDecreasing(MaxWalkBreaks, 0, Len(text) - 1)
    /\ max_chunk_size \in 1..MaxSecChunkSize
    /\ overlap_size \in SecOverlaps
    /\ start = 0
    /\ chunks = <<>>
    /\ slices = <<>>
    /\ iterations = 0
    /\ pc = "walk"
    /\ break_text = <<>>
    /\ break_response = NoResponse
    /\ pc_b = "idle"
    /\ ChunkIdle
    /\ EmbedIdle
    /\ SearchIdle
    /\ IndexIdle
    /\ RestIdle

\* lines 291-293: without break points the size-based splitter does the work
NoBreakPoints ==
    /\ pc = "walk"
    /\ semantic_breaks = <<>>
    /\ chunks' = _split_text_with_overlap(text, max_chunk_size, overlap_size)
    /\ pc' = "done"
    /\ UNCHANGED <<text, max_chunk_size, overlap_size, start, slices, iterations>>
    /\ UNCHANGED outsideSplit

\* lines 298-303, one iteration of the for loop; iterations counts the break
\* points walked and slices records the range [start, break_point) of every
\* cut made
WalkBreakPoint ==
    /\ pc = "walk"
    /\ semantic_breaks # <<>>
    /\ iterations < Len(semantic_breaks)
    /\ LET break_point == semantic_breaks[iterations + 1]
       IN  IF 2 * (break_point - start) > max_chunk_size
           THEN LET chunk == Strip(Slice(text, start, break_point))
                IN  /\ chunks' = IF chunk # <<>> THEN Append(chunks, chunk) ELSE chunks
                    /\ slices' = Append(slices, <<start, break_point>>)
                    /\ start' = Max2(0, break_point - overlap_size)
           ELSE UNCHANGED <<chunks, slices, start>>
    /\ iterations' = iterations + 1
    /\ UNCHANGED <<text, max_chunk_size, overlap_size, pc>>
    /\ UNCHANGED outsideSplit

\* lines 305-311: the final chunk, and the list is returned
WalkReturn ==
    /\ pc = "walk"
    /\ semantic_breaks # <<>>
    /\ iterations = Len(semantic_breaks)
    /\ LET final_chunk == Strip(Slice(text, start, Len(text)))
       IN  chunks' = IF start < Len(text) /\ final_chunk # <<>>
                     THEN Append(chunks, final_chunk)
                     ELSE chunks
    /\ pc' = "done"
    /\ UNCHANGED <<text, max_chunk_size, overlap_size, start, slices, iterations>>
    /\ UNCHANGED outsideSplit

WalkNext ==
    \/ NoBreakPoints
    \/ WalkBreakPoint
    \/ WalkReturn

SpecWalk == WalkInit /\ [][WalkNext]_vars

\* the step-by-step walk returns what the operator used by the chunker does
WalkMatchesOperator ==
    pc = "done" =>
        chunks = _split_at_break_points(text, semantic_breaks, max_chunk_size, overlap_size)

\* C26: a cut is made at a break point only if the break point lies more
\* than 0.5 * max_chunk_size after the previous cut (the start of the text
\* before the first cut), and the next piece then starts overlap_size
\* characters before the cut, never below 0; the text left after the last
\* cut is returned as the final piece; without break points the pieces are
\* those of the size-based splitter.
C26_BreakPointWalk ==
    [][/\ (pc = "walk" /\ Len(slices') > Len(slices)) =>
              LET break_point == semantic_breaks[iterations']
                  last_cut == IF slices = <<>> THEN 0 ELSE slices[Len(slices)][2]
              IN  /\ 2 * (break_point - last_cut) > max_chunk_size
                  /\ start' = Max2(0, break_point - overlap_size)
       /\ (pc = "walk" /\ pc' = "done" /\ semantic_breaks # <<>>
           /\ Strip(Slice(text, start, Len(text))) # <<>>) =>
              chunks' = Append(chunks, Strip(Slice(text, start, Len(text))))
       /\ (pc = "walk" /\ pc' = "done" /\ semantic_breaks = <<>>) =>
              chunks' = _split_text_with_overlap(text, max_chunk_size, overlap_size)]_vars

----------------------------------------------------------------------------
(* Summaries of the smart strategy's chunks, on chunks long enough for one *)

\* a max_chunk_size above the summary threshold, so that a section of 201
\* characters is one chunk
SummaryChunkSize == 250

\* full texts of the sections: a short one, one of exactly SummaryMinLen
\* characters, one of SummaryMinLen + 1, and a blank one
SummarySectionTexts ==
    {<<"a", " ", "a">>,
     [i \in 1..SummaryMinLen |-> "a"],
     [i \in 1..(SummaryMinLen + 1) |-> IF i = 3 THEN " " ELSE "a"],
     <<" ">>}

SummaryDocuments == UNION {[1..n -> SummarySectionTexts] : n \in 1..MaxSummarySections}

SummaryInit ==
    /\ document \in SummaryDocuments
    /\ max_chunk_size = SummaryChunkSize
    /\ overlap_size \in SecOverlaps
    /\ strategy = "smart"
    /\ section_index = 0
    /\ doc_chunks = <<>>
    /\ result = <<>>
    /\ pc_c = "chunking"
    /\ smart_failed_at = -1
    /\ llm_calls = 0
    /\ summary_log = <<>>
    /\ SplitIdle
    /\ EmbedIdle
    /\ SearchIdle
    /\ BreakIdle
    /\ IndexIdle
    /\ RestIdle

SpecSummary == SummaryInit /\ [][ChunkNext]_vars

\* the summarize calls made for the chunk at position i of the chunks built
SummaryCallsFor(i) == {k \in 1..Len(summary_log) : summary_log[k].chunk = i}

\* C27: while the smart strategy has not fallen back, a summarize call is
\* made for a chunk exactly when summaries are enabled and its content is
\* longer than 200 characters, once; a chunk whose call threw, failed or
\* returned nothing is kept with summary null, a chunk whose call returned
\* text carries the summary; every section is chunked by the smart strategy
\* whatever the calls did, one chunk for each section that is not blank.
C27_SummaryPerChunk ==
    (strategy = "smart" /\ smart_failed_at < 0) =>
        /\ \A i \in 1..Len(doc_chunks) :
               /\ Cardinality(SummaryCallsFor(i)) =
                      (IF use_summaries /\ Len(doc_chunks[i].content) > SummaryMinLen
                       THEN 1 ELSE 0)
               /\ \A k \in SummaryCallsFor(i) :
                      doc_chunks[i].summary =
                          (IF summary_log[k].outcome = "text" THEN "summary" ELSE "None")
               /\ SummaryCallsFor(i) = {} => doc_chunks[i].summary = "None"
        /\ \A k \in 1..Len(summary_log) : summary_log[k].chunk \in 1..Len(doc_chunks)
        /\ Len(doc_chunks) =
               Cardinality({s \in 1..section_index : Strip(document[s]) # <<>>})
        /\ pc_c = "done" =>
               /\ section_index = Len(document)
               /\ Len(result) = Len(doc_chunks)
               /\ \A i \in 1..Len(result) :
                      /\ result[i].content = doc_chunks[i].content
                      /\ result[i].summary = doc_chunks[i].summary

\* the summarize call for the first chunk threw, the second chunk got its
\* summary, and both were returned by the smart strategy
C27_Witness ==
    /\ strategy = "smart"
    /\ smart_failed_at < 0
    /\ pc_c = "done"
    /\ Len(result) = 2
    /\ Len(summary_log) = 2
    /\ summary_log[1].outcome = "raise"
    /\ summary_log[2].outcome = "text"
    /\ result[1].summary = "None"
    /\ result[2].summary = "summary"

----------------------------------------------------------------------------
(* index_document: what it returns and what it leaves in the collection *)

\* C28: a call of index_document that ended without a failure of chunking
\* or of the vector store has returned its statistics (indexing_complete,
\* chunks_created = number of chunks, chunks_with_embeddings = number of
\* chunks with an embedding), for a document without chunks too, and the
\* collection holds exactly the chunks with an embedding.
C28_IndexingStatistics ==
    (pc_i \in {"returned", "failed"} /\ index_error \notin {"chunking", "store"}) =>
        /\ pc_i = "returned"
        /\ final_stats = [indexing_complete |-> TRUE,
                          chunks_created |-> Len(result),
                          chunks_with_embeddings |-> Cardinality(embedded_chunks)]
        /\ collection = AddedEntries(result, embedded_chunks, index_calls)

\* the call has gone past create_collection and add_chunks
PastStoring ==
    \/ pc_i \in {"created", "added", "returned"}
    \/ pc_i = "failed" /\ index_error \in {"AttributeError", "store", "ZeroDivisionError"}

\* C29: the collection is what it was before the call while chunking and
\* embedding generation run and after a failure raised during chunking; it
\* is deleted and created again only once both have finished, and from then
\* on it holds only chunks of the document of this call.
C29_CollectionReplaced ==
    /\ pc_i \in {"chunking", "embedded"} => collection = collection_before
    /\ (pc_i = "failed" /\ index_error = "chunking") => collection = collection_before
    /\ PastStoring =>
           /\ pc_c = "done"
           /\ \A k \in 1..Len(collection) : collection[k].document_id = index_calls

\* a collection holding a chunk of an earlier document has just been
\* deleted and created again, after chunking and embedding generation
C29_Witness ==
    /\ pc_i = "created"
    /\ pc_c = "done"
    /\ result # <<>>
    /\ embedded_chunks # {}
    /\ collection_before # <<>>
    /\ collection = <<>>

----------------------------------------------------------------------------
(* GoogleDocsParser._parse_content_into_sections *)

\* a paragraph looks like a heading only if its text is shorter than this
QuestionMaxLen == 200

HeadingStyles == {"HEADING_1", "HEADING_2", "HEADING_3", "TITLE", "SUBTITLE"}

\* int(named_style_type.split("_")[1]) for the HEADING_n styles
HeadingNumber(style) ==
    CASE style = "HEADING_1" -> 1
      [] style = "HEADING_2" -> 2
      [] style = "HEADING_3" -> 3

\* the content of the text run of a paragraph: a statement and a question
ParagraphTexts == {<<"a", "\n">>, <<"a", "?", "\n">>}

\* the text style of the text run: plain, bold, highlighted
TextStyles == {[bold |-> FALSE, green |-> 0], [bold |-> TRUE, green |-> 0],
               [bold |-> FALSE, green |-> 1]}

\* the items of body.content: paragraphs of one text run, tables, and items
\* that are neither (section breaks)
ContentItems ==
    {[kind |-> "paragraph", style |-> style, content |-> <<"a", "\n">>,
      textStyle |-> [bold |-> FALSE, green |-> 0]] : style \in HeadingStyles}
    \cup {[kind |-> "paragraph", style |-> "NORMAL_TEXT", content |-> c, textStyle |-> ts] :
             c \in ParagraphTexts, ts \in TextStyles}
    \cup {[kind |-> "table", style |-> "", content |-> <<"t">>,
           textStyle |-> [bold |-> FALSE, green |-> 0]],
          [kind |-> "sectionBreak", style |-> "", content |-> <<>>,
           textStyle |-> [bold |-> FALSE, green |-> 0]]}

\* GoogleDocsParser._parse_paragraph
_parse_paragraph(paragraph) ==
    LET stripped == Strip(paragraph.content)
        looks_like_heading ==
            /\ stripped # <<>>
            /\ stripped[Len(stripped)] = "?"
            /\ Len(stripped) < QuestionMaxLen
            /\ (paragraph.textStyle.bold \/ paragraph.textStyle.green = 1)
    IN  IF paragraph.style \in {"HEADING_1", "HEADING_2", "HEADING_3"}
        THEN [type |-> "heading", text |-> stripped, level |-> HeadingNumber(paragraph.style)]
        ELSE IF paragraph.style = "TITLE"
        THEN [type |-> "heading", text |-> stripped, level |-> 1]
        ELSE IF paragraph.style = "SUBTITLE"
        THEN [type |-> "heading", text |-> stripped, level |-> 2]
        ELSE IF looks_like_heading
        THEN [type |-> "heading", text |-> stripped, level |-> 3]
        ELSE [type |-> "paragraph", text |-> stripped, level |-> 0]

\* GoogleDocsParser._parse_table, for a table of one cell
_parse_table(table) == [type |-> "table", text |-> Strip(table.content), level |-> 0]

\* DocumentSection(title, level) as an entry of the list of all sections
\* created: parent is the entry it was appended to as a subsection, 0 for a
\* top-level section; opened_by is the position of the heading item, 0 for
\* the default section
NewSection(title, level, parent, opened_by) ==
    [title |-> title, level |-> level, elements |-> <<>>, parent |-> parent,
     opened_by |-> opened_by]

RECURSIVE PopStack(_, _, _)
\* the loop of line 229 with > in place of >=
PopStack_KeepEqual(stack, all_sections, level) ==
    IF stack # <<>> /\ all_sections[stack[Len(stack)]].level > level
    THEN PopStack(SubSeq(stack, 1, Len(stack) - 1), all_sections, level)
    ELSE stack

\* lines 229-230: pop while the top of the stack is at the heading's level
\* or deeper
PopStack(stack, all_sections, level) ==
    IF stack # <<>> /\ all_sections[stack[Len(stack)]].level >= level
    THEN PopStack(SubSeq(stack, 1, Len(stack) - 1), all_sections, level)
    ELSE stack

ParseInit ==
    /\ parsed_sections = <<>>
    /\ section_stack = <<>>
    /\ current_section = 0
    /\ parsed_items = <<>>
    /\ pc_p = "parsing"
    /\ ConfigIdle
    /\ SplitIdle
    /\ ChunkIdle
    /\ EmbedIdle
    /\ SearchIdle
    /\ BreakIdle
    /\ IndexIdle
    /\ RepeatIdle
    /\ TextIdle
    /\ StatsIdle

\* lines 218-241: a heading opens a section
OpenSection(element, position) ==
    IF element.level = 1
    THEN /\ parsed_sections' =
                Append(parsed_sections, NewSection(element.text, 1, 0, position))
         /\ section_stack' = <<Len(parsed_sections) + 1>>
         /\ current_section' = Len(parsed_sections) + 1
    ELSE LET popped == PopStack(section_stack, parsed_sections, element.level)
             parent == IF popped # <<>> THEN popped[Len(popped)] ELSE 0
         IN  /\ parsed_sections' =
                    Append(parsed_sections,
                           NewSection(element.text, element.level, parent, position))
             /\ section_stack' = Append(popped, Len(parsed_sections) + 1)
             /\ current_section' = Len(parsed_sections) + 1

\* lines 242-250 and 252-258: other content goes to the current section,
\* a default one if there is none yet
AppendElement(element, position) ==
    LET entry == [type |-> element.type, text |-> element.text, item |-> position]
    IN  IF current_section = 0
        THEN /\ parsed_sections' =
                    Append(parsed_sections,
                           [NewSection(<<>>, 0, 0, 0) EXCEPT !.elements = <<entry>>])
             /\ section_stack' = <<Len(parsed_sections) + 1>>
             /\ current_section' = Len(parsed_sections) + 1
        ELSE /\ parsed_sections' =
                    [parsed_sections EXCEPT
                        ![current_section].elements = Append(@, entry)]
             /\ UNCHANGED <<section_stack, current_section>>

\* one iteration of the loop over the content
ParseItem ==
    /\ pc_p = "parsing"
    /\ Len(parsed_items) < MaxItems
    /\ \E item \in ContentItems :
         LET position == Len(parsed_items) + 1
         IN  /\ parsed_items' = Append(parsed_items, item)
             /\ IF item.kind = "paragraph"
                THEN LET element == _parse_paragraph(item)
                     IN  IF element.type = "heading"
                         THEN OpenSection(element, position)
                         ELSE AppendElement(element, position)
                ELSE IF item.kind = "table"
                THEN AppendElement(_parse_table(item), position)
                ELSE UNCHANGED <<parsed_sections, section_stack, current_section>>
    /\ UNCHANGED pc_p
    /\ UNCHANGED outsideParse

\* the content is exhausted: return sections
ParseReturn ==
    /\ pc_p = "parsing"
    /\ pc_p' = "returned"
    /\ UNCHANGED <<parsed_sections, section_stack, current_section, parsed_items>>
    /\ UNCHANGED outsideParse

ParseNext == ParseItem \/ ParseReturn

SpecParse == ParseInit /\ [][ParseNext]_vars

\* the content item at position j is a heading
IsHeadingItem(j) ==
    /\ parsed_items[j].kind = "paragraph"
    /\ _parse_paragraph(parsed_items[j]).type = "heading"

\* the content item at position j is a paragraph that is no heading, or a table
IsBodyItem(j) ==
    \/ parsed_items[j].kind = "table"
    \/ parsed_items[j].kind = "paragraph" /\ ~IsHeadingItem(j)

\* the sections holding an element made from the item at position j
HoldersOf(j) ==
    {s \in 1..Len(parsed_sections) :
        \E e \in 1..Len(parsed_sections[s].elements) :
            parsed_sections[s].elements[e].item = j}

\* C30: after any sequence of content items, every subsection has a level
\* strictly greater than its parent's, every section opened by a level-1
\* heading is top-level, and every paragraph that is no heading and every
\* table is an element of exactly one section: the one opened by the most
\* recent heading before it, or, with no heading before it, the one default
\* section, which is untitled, of level 0 and top-level.
C30_SectionHierarchy ==
    /\ \A s \in 1..Len(parsed_sections) :
           LET section == parsed_sections[s]
           IN  /\ section.parent > 0 =>
                      section.level > parsed_sections[section.parent].level
               /\ (section.opened_by > 0 /\ section.level = 1) => section.parent = 0
               /\ section.opened_by > 0 => IsHeadingItem(section.opened_by)
               /\ section.opened_by = 0 =>
                      /\ section.title = <<>>
                      /\ section.level = 0
                      /\ section.parent = 0
    /\ Cardinality({s \in 1..Len(parsed_sections) : parsed_sections[s].opened_by = 0}) <= 1
    /\ \A j \in 1..Len(parsed_items) :
           /\ IsHeadingItem(j) =>
                  \E s \in 1..Len(parsed_sections) : parsed_sections[s].opened_by = j
           /\ IsBodyItem(j) =>
                  LET headings_before == {h \in 1..(j - 1) : IsHeadingItem(h)}
                      owner_opened_by ==
                          IF headings_before = {} THEN 0 ELSE SetMax(headings_before)
                  IN  /\ Cardinality(HoldersOf(j)) = 1
                      /\ \A s \in HoldersOf(j) :
                             parsed_sections[s].opened_by = owner_opened_by
           /\ ~IsHeadingItem(j) /\ ~IsBodyItem(j) => HoldersOf(j) = {}

\* a level-1 heading, then a highlighted question paragraph that became a
\* level-3 subsection of it, which owns the paragraph that follows
C30_Witness ==
    /\ pc_p = "returned"
    /\ Len(parsed_items) = 3
    /\ parsed_items[1].style = "HEADING_1"
    /\ parsed_items[2].style = "NORMAL_TEXT"
    /\ parsed_items[2].textStyle.green = 1
    /\ parsed_items[3].style = "NORMAL_TEXT"
    /\ Len(parsed_sections) = 2
    /\ parsed_sections[2].level = 3
    /\ parsed_sections[2].title = <<"a", "?">>
    /\ parsed_sections[2].parent = 1
    /\ Len(parsed_sections[2].elements) = 1
    /\ parsed_sections[2].elements[1].item = 3
    /\ parsed_sections[1].elements = <<>>

====
